---- MODULE Spec2Model ----
(***************************************************************************)
(* Model of the query pipeline of the universal data viewer (udv):         *)
(*   - the relational query builder  (internal/adapter/postgres/builder.go)*)
(*   - the document query builder    (internal/adapter/mongodb, builder)   *)
(*   - the two executors             (postgres and mongodb Database)       *)
(*   - schema inference and type resolution of sampled documents, and     *)
(*     relational introspection     (internal/schema_processor)            *)
(*                                                                         *)
(* SQL text is a sequence of tokens instead of a string: a literal, a      *)
(* column reference alias.name, a bare identifier, or a placeholder $n     *)
(* with its cast suffix.  strings.Join(parts, " ") is concatenation.       *)
(* Go values (interface{}) are records: a type tag, the payload (x, y)     *)
(* and the LIKE wildcards that starts_with/ends_with/contains glue on.     *)
(***************************************************************************)
EXTENDS Integers, Sequences, FiniteSets, TLC

VARIABLES
    plan,      \* relational builder: the plan of the request being built
    qb,        \* the QueryBuilder instance: [params, paramCount]
    res,       \* what the last BuildQuery call returned
    first,     \* what the first BuildQuery call on this plan returned
    calls,     \* number of BuildQuery calls made on the instance
    cqb,       \* server: the one QueryBuilder all request handlers share
    hplan,     \* server: the plan of each request handler
    hpc,       \* server: the line of BuildQuery each handler is at
    hloc,      \* server: each handler's locals (where / limitParam, offsetParam)
    hres,      \* server: what BuildQuery returned to each handler
    xdb,       \* executor: the backend, "postgres" or "mongodb"
    xquery,    \* executor: the kind of the query argument
    xcursor,   \* executor: the rows the driver's cursor holds
    xpc,       \* executor: where ExecuteQuery is
    xresults,  \* executor: the local results
    xfail,     \* executor: the driver call that failed, "" if none did
    xret,      \* executor: what ExecuteQuery returned, [rows, err]
    mplan,     \* document builder: the plan of the request
    mres,      \* document builder: what BuildQuery returned, [query, st]
    sdocs,     \* inference: the sampled documents
    sidx,      \* inference: number of documents InferSchema has analysed
    sschema,   \* inference: CollectionSchema.Fields, field path -> FieldStats
    smodel,    \* inference: the Model GenerateModelFromSchema returned
    spc,       \* inference: "infer", "inferred" or "generated"
    rschema,   \* resolution: a CollectionSchema.Fields handed in by a caller
    rout,      \* resolution: what the last ResolveFieldType call returned
    rfirst,    \* resolution: what the first ResolveFieldType call returned
    rcalls,    \* resolution: number of ResolveFieldType calls
    gmodel,    \* resolution: the last Model generated from rschema
    gfirst,    \* resolution: the first Model generated from rschema
    gcalls,    \* resolution: number of GenerateModelFromSchema calls
    itables,   \* introspection: the tables named to GenerateModels, as the
               \* database catalog describes them
    iidx,      \* introspection: number of tables GenerateModels has handled
    imodels,   \* introspection: the models built so far
    ipc,       \* introspection: "start", "run", "done" (models returned),
               \* "saved" or "failed"
    inamed,    \* introspection: whether the caller named the tables
    ifile,     \* introspection: the output file, [state, models]
    ierr,      \* introspection: the step whose error was returned, "" if none
    tname,     \* type mapping: a base type name
    ttext,     \* type mapping: the data_type text handed to the mapping
    tout,      \* type mapping: what mapPostgreSQLTypeToJSON returned
    uqb,       \* builder reuse: the QueryBuilder instance
    uarr,      \* builder reuse: the backing array qb.params points to
    uheap,     \* builder reuse: the contents of the arrays allocated so far
    uhist      \* builder reuse: the BuildQuery calls made, oldest first

seqVars == <<plan, qb, res, first, calls>>
srvVars == <<cqb, hplan, hpc, hloc, hres>>
exeVars == <<xdb, xquery, xcursor, xpc, xresults, xfail, xret>>
docVars == <<mplan, mres>>
schVars == <<sdocs, sidx, sschema, smodel, spc>>
rslVars == <<rschema, rout, rfirst, rcalls, gmodel, gfirst, gcalls>>
intVars == <<itables, iidx, imodels, ipc, inamed, ifile, ierr>>
mapVars == <<tname, ttext, tout>>
useVars == <<uqb, uarr, uheap, uhist>>
extVars == <<mapVars, useVars>>
auxVars == <<schVars, rslVars, intVars, extVars>>

vars == <<seqVars, srvVars, exeVars, docVars, auxVars>>

(***************************************************************************)
(* Bounds of the model.                                                    *)
(***************************************************************************)
\* children of one logical filter node
MaxNodes == 2
\* rows a cursor holds
MaxRows == 2
\* BuildQuery calls made on one builder instance
MaxCalls == 2
\* largest TotalCount of a FieldStats handed to ResolveFieldType
MaxTotal == 10
\* largest number of documents sampled from a collection
MaxDocs == 2
\* largest number of tables named to one GenerateModels call
MaxTables == 2

(***************************************************************************)
(* Values, tokens.                                                         *)
(***************************************************************************)
Nil == [ty |-> "nil", x |-> 0, y |-> 0, w |-> ""]
IntV(n) == [ty |-> "int", x |-> n, y |-> 0, w |-> ""]
StrV(n) == [ty |-> "string", x |-> n, y |-> 0, w |-> ""]
PairV(lo, hi) == [ty |-> "pair", x |-> lo, y |-> hi, w |-> ""]
ListV(a, b) == [ty |-> "list", x |-> a, y |-> b, w |-> ""]

Lit(s) == [k |-> "lit", s |-> s, a |-> "", n |-> 0, cast |-> ""]
Ident(s) == [k |-> "id", s |-> s, a |-> "", n |-> 0, cast |-> ""]
ColRef(alias, name) == [k |-> "col", s |-> name, a |-> alias, n |-> 0, cast |-> ""]
Ph(n) == [k |-> "ph", s |-> "$", a |-> "", n |-> n, cast |-> ""]

\* strings.Join(parts, sep): parts is a sequence of token sequences
RECURSIVE Join(_, _)
Join(parts, sep) ==
    IF parts = <<>> THEN <<>>
    ELSE IF Len(parts) = 1 THEN parts[1]
    ELSE parts[1] \o sep \o Join(Tail(parts), sep)

(***************************************************************************)
(* Type casts (builder.go 14-47).                                          *)
(***************************************************************************)
getPostgreSQLType(fieldType) ==
    CASE fieldType = "uuid" -> "uuid"
      [] fieldType = "json" -> "jsonb"
      [] fieldType = "binary" -> "bytea"
      [] fieldType \in {"timestamp", "date", "datetime"} -> "timestamp"
      [] OTHER -> ""

needsTypeCasting_date(fieldType) ==
    fieldType \in {"uuid", "json", "binary", "timestamp", "date"}

needsTypeCasting(fieldType) ==
    fieldType \in {"uuid", "json", "binary", "timestamp"}

addTypeCast(paramPlaceholder, fieldType) ==
    LET pgType == getPostgreSQLType(fieldType)
    IN  IF pgType = "" THEN paramPlaceholder
        ELSE [paramPlaceholder EXCEPT !.cast = pgType]

(***************************************************************************)
(* The builder's state and the result of one build step.                   *)
(***************************************************************************)
NewQueryBuilder == [params |-> <<>>, paramCount |-> 0]

\* qb.paramCount++ ; qb.params = append(qb.params, v)
Push(q, v) == [params |-> Append(q.params, v), paramCount |-> q.paramCount + 1]

Ok(q, sql) == [qb |-> q, sql |-> sql, st |-> "ok"]
Err(q) == [qb |-> q, sql |-> <<>>, st |-> "err"]
Panic(q) == [qb |-> q, sql |-> <<>>, st |-> "panic"]

(***************************************************************************)
(* Filters (builder.go 268-482).                                           *)
(***************************************************************************)
\* one placeholder, one parameter, no cast: > >= < <= like ilike before after
Plain(q, colName, f, opTok) ==
    IF f.value = Nil THEN Err(q)
    ELSE LET q1 == Push(q, f.value)
         IN  Ok(q1, <<colName, Lit(opTok), Ph(q1.paramCount)>>)

\* = != in not_in: the placeholder is cast when the column type needs it
Casted(q, colName, f, pre, post) ==
    IF f.value = Nil THEN Err(q)
    ELSE LET q1 == Push(q, f.value)
             p0 == Ph(q1.paramCount)
             paramPlaceholder ==
                 IF needsTypeCasting(f.left.dt) THEN addTypeCast(p0, f.left.dt)
                 ELSE p0
         IN  Ok(q1, <<colName>> \o pre \o <<paramPlaceholder>> \o post)

\* starts_with ends_with contains: f.Value.Value.(string) glued to wildcards
Wild(q, colName, f, w) ==
    IF f.value = Nil THEN Err(q)
    ELSE IF f.value.ty # "string" THEN Panic([q EXCEPT !.paramCount = @ + 1])
    ELSE LET q1 == Push(q, [f.value EXCEPT !.w = w])
         IN  Ok(q1, <<colName, Lit("LIKE"), Ph(q1.paramCount)>>)

buildComparisonFilter(q, f) ==
    LET colName == ColRef(f.left.alias, f.left.name)
    IN  CASE f.op = "=" -> Casted(q, colName, f, <<Lit("=")>>, <<>>)
          [] f.op = "!=" -> Casted(q, colName, f, <<Lit("!=")>>, <<>>)
          [] f.op = ">" -> Plain(q, colName, f, ">")
          [] f.op = ">=" -> Plain(q, colName, f, ">=")
          [] f.op = "<" -> Plain(q, colName, f, "<")
          [] f.op = "<=" -> Plain(q, colName, f, "<=")
          [] f.op = "in" ->
                Casted(q, colName, f, <<Lit("= ANY(")>>, <<Lit(")")>>)
          [] f.op = "not_in" ->
                Casted(q, colName, f, <<Lit("!= ALL(")>>, <<Lit(")")>>)
          [] f.op = "is_null" -> Ok(q, <<colName, Lit("IS NULL")>>)
          [] f.op = "not_null" -> Ok(q, <<colName, Lit("IS NOT NULL")>>)
          [] f.op = "like" -> Plain(q, colName, f, "LIKE")
          [] f.op = "ilike" -> Plain(q, colName, f, "ILIKE")
          [] f.op = "starts_with" -> Wild(q, colName, f, "v%")
          [] f.op = "ends_with" -> Wild(q, colName, f, "%v")
          [] f.op = "contains" -> Wild(q, colName, f, "%v%")
          [] f.op = "between" ->
                IF f.value = Nil THEN Err(q)
                ELSE LET q1 == Push(q, f.value)
                     IN  Ok(q1, <<colName, Lit("BETWEEN"), Ph(q1.paramCount),
                                  Lit("AND"), Ph(q1.paramCount + 1)>>)
          [] f.op = "before" -> Plain(q, colName, f, "<")
          [] f.op = "after" -> Plain(q, colName, f, ">")
          [] OTHER -> Err(q)

RECURSIVE buildFilterExpression(_, _)
RECURSIVE buildLogicalFilter(_, _)
RECURSIVE buildNodes(_, _, _)

\* the loop of buildLogicalFilter over f.Nodes
buildNodes(q, nodes, parts) ==
    IF nodes = <<>> THEN [qb |-> q, parts |-> parts, st |-> "ok"]
    ELSE LET r == buildFilterExpression(q, Head(nodes))
         IN  IF r.st # "ok" THEN [qb |-> r.qb, parts |-> <<>>, st |-> r.st]
             ELSE buildNodes(r.qb, Tail(nodes), Append(parts, r.sql))

\* case "NOT": if len(parts) != 1
notOneNode_never(parts) == FALSE
notOneNode(parts) == Len(parts) # 1

buildLogicalFilter(q, f) ==
    IF Len(f.nodes) = 0 THEN Err(q)
    ELSE LET l == buildNodes(q, f.nodes, <<>>)
         IN  IF l.st # "ok" THEN [qb |-> l.qb, sql |-> <<>>, st |-> l.st]
             ELSE CASE f.op = "AND" ->
                         Ok(l.qb, <<Lit("(")>> \o Join(l.parts, <<Lit("AND")>>)
                                  \o <<Lit(")")>>)
                    [] f.op = "OR" ->
                         Ok(l.qb, <<Lit("(")>> \o Join(l.parts, <<Lit("OR")>>)
                                  \o <<Lit(")")>>)
                    [] f.op = "NOT" ->
                         IF notOneNode(l.parts) THEN Err(l.qb)
                         ELSE Ok(l.qb, <<Lit("NOT")>> \o l.parts[1])
                    [] OTHER -> Err(l.qb)

buildFilterExpression(q, expr) ==
    CASE expr.kind = "cmp" -> buildComparisonFilter(q, expr)
      [] expr.kind = "log" -> buildLogicalFilter(q, expr)
      [] OTHER -> Err(q)

buildWhereClause(q, filterExpr) ==
    LET r == buildFilterExpression(q, filterExpr)
    IN  IF r.st # "ok" THEN r
        ELSE Ok(r.qb, <<Lit("WHERE")>> \o r.sql)

(***************************************************************************)
(* Clauses of a SELECT (builder.go 226-266, 484-557).                      *)
(***************************************************************************)
buildAggregateExpression(agg) ==
    LET arg == <<ColRef(agg.column.alias, agg.column.name), Lit(")")>>
        aggSQL ==
            CASE agg.fn = "count" ->
                    IF ~agg.hasCol THEN <<Lit("COUNT(*)")>>
                    ELSE <<Lit("COUNT(")>> \o arg
              [] agg.fn = "sum" -> <<Lit("SUM(")>> \o arg
              [] agg.fn = "avg" -> <<Lit("AVG(")>> \o arg
              [] agg.fn = "min" -> <<Lit("MIN(")>> \o arg
              [] agg.fn = "max" -> <<Lit("MAX(")>> \o arg
              [] OTHER -> <<Lit("COUNT(*)")>>
    IN  aggSQL \o <<Lit("AS"), Ident(agg.alias)>>

buildSelectClause(p) ==
    LET selected ==
            [i \in 1..Len(p.select) |->
                LET expr == p.select[i]
                    colName == <<ColRef(expr.column.alias, expr.column.name)>>
                IN  IF expr.alias # expr.column.name
                    THEN colName \o <<Lit("AS"), Ident(expr.alias)>>
                    ELSE colName]
        grouped ==
            IF Len(p.groupBy) > 0 /\ Len(p.select) = 0
            THEN [i \in 1..Len(p.groupBy) |->
                     <<ColRef(p.groupBy[i].alias, p.groupBy[i].name)>>]
            ELSE <<>>
        aggs == [i \in 1..Len(p.aggregates) |->
                    buildAggregateExpression(p.aggregates[i])]
        columns == selected \o grouped \o aggs
    IN  IF Len(columns) = 0 THEN <<Lit("SELECT *")>>
        ELSE <<Lit("SELECT")>> \o Join(columns, <<Lit(",")>>)

buildFromClause(p) == <<Lit("FROM"), Ident(p.table), Ident(p.alias)>>

\* a clause that names the grouping columns without their table alias
buildGroupByClause_bare(p) ==
    <<Lit("GROUP BY")>>
    \o Join([i \in 1..Len(p.groupBy) |-> <<Ident(p.groupBy[i].name)>>], <<Lit(",")>>)

buildGroupByClause(p) ==
    <<Lit("GROUP BY")>>
    \o Join([i \in 1..Len(p.groupBy) |->
                <<ColRef(p.groupBy[i].alias, p.groupBy[i].name)>>], <<Lit(",")>>)

buildOrderByClause(p) ==
    LET sortCol(sortExpr) ==
            LET colRef ==
                    IF sortExpr.hasCol
                    THEN <<ColRef(sortExpr.column.alias, sortExpr.column.name)>>
                    ELSE IF sortExpr.hasAgg THEN <<Ident(sortExpr.aggAlias)>>
                    ELSE <<>>
                direction == IF sortExpr.direction = "DESC" THEN "DESC" ELSE "ASC"
            IN  colRef \o <<Lit(direction)>>
    IN  <<Lit("ORDER BY")>>
        \o Join([i \in 1..Len(p.sort) |-> sortCol(p.sort[i])], <<Lit(",")>>)

\* a clause that leaves LIMIT and OFFSET out when both are zero
buildPaginationClause_nonzero(q, p) ==
    IF p.limit = 0 /\ p.offset = 0 THEN Ok(q, <<>>)
    ELSE LET q1 == Push(q, IntV(p.limit))
             q2 == Push(q1, IntV(p.offset))
         IN  Ok(q2, <<Lit("LIMIT"), Ph(q1.paramCount), Lit("OFFSET"),
                      Ph(q2.paramCount)>>)

buildPaginationClause(q, p) ==
    LET q1 == Push(q, IntV(p.limit))
        limitParam == q1.paramCount
        q2 == Push(q1, IntV(p.offset))
        offsetParam == q2.paramCount
    IN  Ok(q2, <<Lit("LIMIT"), Ph(limitParam), Lit("OFFSET"), Ph(offsetParam)>>)

(***************************************************************************)
(* Statements (builder.go 88-224).  A call returns [qb, text, params, st]: *)
(* the instance after the call and the three results of the Go function    *)
(* (st = "ok" for a nil error, "err" for an error, "panic" for an aborted  *)
(* call).                                                                  *)
(***************************************************************************)
Fail(q, st) == [qb |-> q, text |-> <<>>, params |-> <<>>, st |-> st]
Done(q, text) == [qb |-> q, text |-> text, params |-> q.params, st |-> "ok"]

buildSelect(q, p) ==
    LET selectPart == buildSelectClause(p)
        fromPart == buildFromClause(p)
        w == IF p.filters.kind # "nil" THEN buildWhereClause(q, p.filters)
             ELSE Ok(q, <<>>)
        groupByPart == IF Len(p.groupBy) > 0 THEN buildGroupByClause(p) ELSE <<>>
        orderByPart == IF Len(p.sort) > 0 THEN buildOrderByClause(p) ELSE <<>>
        pg == buildPaginationClause(w.qb, p)
    IN  IF w.st # "ok" THEN Fail(w.qb, w.st)
        ELSE Done(pg.qb, selectPart \o fromPart \o w.sql \o groupByPart
                         \o orderByPart \o pg.sql \o <<Lit(";")>>)

\* the range over plan.Data, in the order the map iteration produced
RECURSIVE rangeData(_, _, _, _)
rangeData(q, data, order, i) ==
    IF i > Len(order) THEN q
    ELSE rangeData(Push(q, data[order[i]]), data, order, i + 1)

buildInsert(q, p, order) ==
    IF DOMAIN p.data = {} THEN Fail(q, "err")
    ELSE LET fields == [i \in 1..Len(order) |-> <<Ident(order[i])>>]
             placeholders ==
                 [i \in 1..Len(order) |-> <<Ph(q.paramCount + i)>>]
             q1 == rangeData(q, p.data, order, 1)
         IN  Done(q1, <<Lit("INSERT INTO"), Ident(p.table), Lit("(")>>
                      \o Join(fields, <<Lit(",")>>)
                      \o <<Lit(") VALUES (")>>
                      \o Join(placeholders, <<Lit(",")>>)
                      \o <<Lit(") RETURNING *"), Lit(";")>>)

\* a selector that lets a request without id and filters through
selector_lax(q, p) ==
    IF p.id # Nil
    THEN LET q1 == Push(q, p.id)
         IN  Ok(q1, <<Lit("WHERE"), Ident(p.pk.name), Lit("="), Ph(q1.paramCount)>>)
    ELSE IF p.filters.kind # "nil" THEN buildWhereClause(q, p.filters)
    ELSE Ok(q, <<>>)

\* the selector of an update or a delete: the id, else the filters
selector(q, p) ==
    IF p.id # Nil
    THEN LET q1 == Push(q, p.id)
         IN  Ok(q1, <<Lit("WHERE"), Ident(p.pk.name), Lit("="), Ph(q1.paramCount)>>)
    ELSE IF p.filters.kind # "nil" THEN buildWhereClause(q, p.filters)
    ELSE Err(q)

buildUpdate(q, p, order) ==
    IF DOMAIN p.data = {} THEN Fail(q, "err")
    ELSE LET sets == [i \in 1..Len(order) |->
                         <<Ident(order[i]), Lit("="), Ph(q.paramCount + i)>>]
             q1 == rangeData(q, p.data, order, 1)
             where == selector(q1, p)
         IN  IF where.st # "ok" THEN Fail(where.qb, where.st)
             ELSE Done(where.qb, <<Lit("UPDATE"), Ident(p.table), Lit("SET")>>
                                 \o Join(sets, <<Lit(",")>>) \o where.sql
                                 \o <<Lit("RETURNING *"), Lit(";")>>)

buildDelete(q, p) ==
    LET where == selector(q, p)
    IN  IF where.st # "ok" THEN Fail(where.qb, where.st)
        ELSE Done(where.qb, <<Lit("DELETE FROM"), Ident(p.table)>> \o where.sql
                            \o <<Lit(";")>>)

\* BuildQuery on instance q; order is the iteration order of plan.Data
BuildQuery(q, p, order) ==
    IF p.isNil THEN Fail(q, "err")
    ELSE IF p.rootNil THEN Fail(q, "err")
    ELSE LET q0 == [q EXCEPT !.params = <<>>, !.paramCount = 0]
             operation == IF p.operation = "" THEN "select" ELSE p.operation
         IN  CASE operation = "create" -> buildInsert(q0, p, order)
               [] operation = "update" -> buildUpdate(q0, p, order)
               [] operation = "delete" -> buildDelete(q0, p)
               [] operation = "select" -> buildSelect(q0, p)
               [] OTHER -> Fail(q0, "err")

(***************************************************************************)
(* Plans: the bounded set of inputs.                                       *)
(***************************************************************************)
Col(name, dt) == [alias |-> "t0", name |-> name, dt |-> dt]
NoCol == [alias |-> "", name |-> "", dt |-> ""]

Columns ==
    { Col("id", "uuid"), Col("name", "string"), Col("age", "integer"),
      Col("created_at", "timestamp"), Col("meta", "json"), Col("blob", "binary"),
      Col("day", "date"), Col("at", "datetime") }

Operators ==
    { "=", "!=", ">", ">=", "<", "<=", "in", "not_in", "is_null", "not_null",
      "like", "ilike", "starts_with", "ends_with", "contains", "between",
      "before", "after" }

Cmp(col, op, v) ==
    [kind |-> "cmp", op |-> op, left |-> col, value |-> v, nodes |-> <<>>]
Log(op, nodes) ==
    [kind |-> "log", op |-> op, left |-> NoCol, value |-> Nil, nodes |-> nodes]
NoFilter ==
    [kind |-> "nil", op |-> "", left |-> NoCol, value |-> Nil, nodes |-> <<>>]

\* the value the IR prescribes for an operator
ValueFor(op) ==
    CASE op \in {"is_null", "not_null"} -> Nil
      [] op = "between" -> PairV(1, 5)
      [] op \in {"in", "not_in"} -> ListV(1, 2)
      [] op \in {"like", "ilike", "starts_with", "ends_with", "contains"} -> StrV(1)
      [] OTHER -> IntV(7)

GoodLeaves == { Cmp(c, op, ValueFor(op)) : c \in Columns, op \in Operators }

\* a missing value, a value of the wrong type, an operator outside the set
BadLeaves ==
    { Cmp(Col("age", "integer"), op, Nil) : op \in Operators \ {"is_null", "not_null"} }
    \cup { Cmp(Col("name", "string"), op, IntV(7)) :
              op \in {"starts_with", "ends_with", "contains"} }
    \cup { Cmp(Col("name", "string"), "regex", StrV(1)) }

NestLeaves ==
    { Cmp(Col("id", "uuid"), "=", StrV(1)),
      Cmp(Col("age", "integer"), "between", PairV(1, 5)),
      Cmp(Col("name", "string"), "is_null", Nil) }

LogOps == {"AND", "OR", "NOT", "XOR"}

SeqsLen(S, n) == [1..n -> S]
SeqsUpTo(S, n) == UNION { SeqsLen(S, m) : m \in 0..n }

FlatLogical == { Log(op, s) : op \in LogOps, s \in SeqsUpTo(NestLeaves, MaxNodes) }

\* a logical node one of whose children is itself a logical node
NestedLogical ==
    { Log(op, [si[1] EXCEPT ![si[2]] = t]) :
        op \in LogOps, t \in { n \in FlatLogical : n.op # "XOR" },
        si \in UNION { SeqsLen(NestLeaves, m) \X (1..m) : m \in 1..MaxNodes } }

ErrLogical ==
    { Log("AND", <<Cmp(Col("id", "uuid"), "=", StrV(1)), b>>) : b \in BadLeaves }

DataKeys == {"age", "email", "name"}
DataValue(k) == IF k = "age" THEN IntV(3) ELSE IF k = "email" THEN StrV(2) ELSE StrV(3)
DataSets == { [k \in K |-> DataValue(k)] : K \in SUBSET DataKeys }

Perms(S) ==
    { s \in [1..Cardinality(S) -> S] : \A i, j \in DOMAIN s : i # j => s[i] # s[j] }

BasePlan ==
    [ isNil |-> FALSE, rootNil |-> FALSE, operation |-> "select",
      table |-> "users", alias |-> "t0", pk |-> Col("id", "uuid"),
      select |-> <<>>, filters |-> NoFilter, groupBy |-> <<>>,
      aggregates |-> <<>>, sort |-> <<>>, limit |-> 100, offset |-> 0,
      data |-> [k \in {} |-> Nil], id |-> Nil ]

SelectLists ==
    { <<>>,
      <<[column |-> Col("name", "string"), alias |-> "name"]>>,
      <<[column |-> Col("name", "string"), alias |-> "n"],
        [column |-> Col("age", "integer"), alias |-> "age"]>> }
GroupLists == { <<>>, <<Col("age", "integer")>> }
AggLists ==
    { <<>>,
      <<[fn |-> "count", hasCol |-> FALSE, column |-> NoCol, alias |-> "cnt"]>>,
      <<[fn |-> "sum", hasCol |-> TRUE, column |-> Col("age", "integer"),
         alias |-> "total"]>> }
SortLists ==
    { <<>>,
      <<[hasCol |-> TRUE, column |-> Col("name", "string"), hasAgg |-> FALSE,
         aggAlias |-> "", direction |-> "ASC"]>>,
      <<[hasCol |-> FALSE, column |-> NoCol, hasAgg |-> TRUE,
         aggAlias |-> "cnt", direction |-> "DESC"]>> }
Pages == { <<100, 0>>, <<0, 0>>, <<10, 5>> }

FilterTrees == GoodLeaves \cup BadLeaves \cup FlatLogical \cup NestedLogical
               \cup ErrLogical
SmallTrees == {NoFilter} \cup NestLeaves \cup FlatLogical \cup ErrLogical

SelectPlans ==
    { [BasePlan EXCEPT !.filters = f] : f \in FilterTrees }
    \cup
    { [BasePlan EXCEPT !.operation = "", !.filters = f] : f \in NestLeaves }
    \cup
    { [BasePlan EXCEPT !.select = sl, !.groupBy = g, !.aggregates = a,
                       !.sort = so, !.limit = pg[1], !.offset = pg[2],
                       !.filters = f] :
        sl \in SelectLists, g \in GroupLists, a \in AggLists, so \in SortLists,
        pg \in Pages,
        f \in {NoFilter, Cmp(Col("name", "string"), "starts_with", StrV(1))} }

CreatePlans == { [BasePlan EXCEPT !.operation = "create", !.data = d] : d \in DataSets }

UpdatePlans ==
    { [BasePlan EXCEPT !.operation = "update", !.data = d, !.id = i, !.filters = f] :
        d \in DataSets, i \in {Nil, IntV(7)}, f \in SmallTrees }

DeletePlans ==
    { [BasePlan EXCEPT !.operation = "delete", !.id = i, !.filters = f] :
        i \in {Nil, IntV(7)}, f \in SmallTrees }

OddPlans ==
    { [BasePlan EXCEPT !.isNil = TRUE], [BasePlan EXCEPT !.rootNil = TRUE],
      [BasePlan EXCEPT !.operation = "upsert"] }

Plans == SelectPlans \cup CreatePlans \cup UpdatePlans \cup DeletePlans \cup OddPlans

(***************************************************************************)
(* The relational builder used by one caller, call after call.             *)
(***************************************************************************)
NoResult == [text |-> <<>>, params |-> <<>>, st |-> "none"]

Handlers == {1, 2}

\* the parts of the state a specification does not use stay as they are here
SeqIdle ==
    /\ plan = BasePlan
    /\ qb = NewQueryBuilder
    /\ res = NoResult
    /\ first = NoResult
    /\ calls = 0

SrvIdle ==
    /\ cqb = NewQueryBuilder
    /\ hplan = [h \in Handlers |-> BasePlan]
    /\ hpc = [h \in Handlers |-> "idle"]
    /\ hloc = [h \in Handlers |-> <<0, 0>>]
    /\ hres = [h \in Handlers |-> NoResult]

NoRows == [rows |-> <<>>, err |-> FALSE]

ExeIdle ==
    /\ xdb = "postgres"
    /\ xquery = "sql"
    /\ xcursor = <<>>
    /\ xpc = "idle"
    /\ xresults = <<>>
    /\ xfail = ""
    /\ xret = NoRows

\* a bson document used as a filter: absent, bson.M{}, {field: val},
\* {field: {op: val}} or {$and / $or: [clauses]}
NilDoc == [k |-> "nil", field |-> "", op |-> "", val |-> Nil, clauses |-> <<>>]
EmptyDoc == [k |-> "empty", field |-> "", op |-> "", val |-> Nil, clauses |-> <<>>]
FieldDoc(field, op, val) ==
    [k |-> "field", field |-> field, op |-> op, val |-> val, clauses |-> <<>>]
LogicDoc(op, clauses) ==
    [k |-> "logic", field |-> "", op |-> op, val |-> Nil, clauses |-> clauses]

NoData == [k \in {} |-> Nil]
Unset == [set |-> FALSE, v |-> 0]
SetTo(n) == [set |-> TRUE, v |-> n]
NoOptions == [set |-> FALSE, limit |-> Unset, skip |-> Unset, sort |-> <<>>]

NoQuery ==
    [ collection |-> "", operation |-> "", filter |-> NilDoc, pipeline |-> <<>>,
      update |-> [set |-> FALSE, data |-> NoData],
      document |-> [set |-> FALSE, data |-> NoData], options |-> NoOptions ]

DocIdle ==
    /\ mplan = BasePlan
    /\ mres = [query |-> NoQuery, st |-> "none"]

\* schema_processor.Model before any field is known
NoModel == [name |-> "", table |-> "", primaryKey |-> <<>>, fields |-> <<>>]
\* an empty map[string]*FieldStats
NoFields == [p \in {} |-> 0]
NoType == [type |-> "", nullable |-> FALSE]

SchIdle ==
    /\ sdocs = <<>> /\ sidx = 0 /\ sschema = NoFields
    /\ smodel = NoModel /\ spc = "idle"
RslIdle ==
    /\ rschema = NoFields /\ rout = NoType /\ rfirst = NoType /\ rcalls = 0
    /\ gmodel = NoModel /\ gfirst = NoModel /\ gcalls = 0
\* the output path before os.WriteFile
NoFile == [state |-> "none", models |-> <<>>]
IntIdle ==
    /\ itables = <<>> /\ iidx = 0 /\ imodels = <<>> /\ ipc = "idle"
    /\ inamed = FALSE /\ ifile = NoFile /\ ierr = ""
MapIdle == tname = "" /\ ttext = <<>> /\ tout = ""
UseIdle == uqb = NewQueryBuilder /\ uarr = 0 /\ uheap = <<>> /\ uhist = <<>>
ExtIdle == MapIdle /\ UseIdle
AuxIdle == SchIdle /\ RslIdle /\ IntIdle /\ ExtIdle


Init ==
    /\ plan \in Plans
    /\ AuxIdle
    /\ qb = NewQueryBuilder
    /\ res = NoResult
    /\ first = NoResult
    /\ calls = 0
    /\ SrvIdle
    /\ ExeIdle
    /\ DocIdle

\* one BuildQuery call on the plan; a create or an update ranges over the
\* map plan.Data, whose iteration order Go leaves unspecified
Build ==
    /\ calls < MaxCalls
    /\ \E order \in Perms(DOMAIN plan.data) :
           LET r == BuildQuery(qb, plan, order)
               out == [text |-> r.text, params |-> r.params, st |-> r.st]
           IN  /\ qb' = r.qb
               /\ res' = out
               /\ first' = IF calls = 0 THEN out ELSE first
    /\ calls' = calls + 1
    /\ UNCHANGED <<plan, srvVars, exeVars, docVars, auxVars>>

Next == Build

Spec == Init /\ [][Next]_vars

(***************************************************************************)
(* Reading a result back.                                                  *)
(***************************************************************************)
IsPh(t) == t.k = "ph"
Placeholders(text) == SelectSeq(text, IsPh)

RECURSIVE Flatten(_)
Flatten(ss) == IF ss = <<>> THEN <<>> ELSE Head(ss) \o Flatten(Tail(ss))

\* the comparison leaves of a filter tree, in pre-order (left to right)
RECURSIVE LeavesOf(_)
LeavesOf(f) ==
    IF f.kind = "cmp" THEN <<f>>
    ELSE IF f.kind = "log"
    THEN Flatten([i \in 1..Len(f.nodes) |-> LeavesOf(f.nodes[i])])
    ELSE <<>>

\* the values a comparison binds, one per placeholder it emits
LeafValues(f) ==
    CASE f.op \in {"is_null", "not_null"} -> <<>>
      [] f.op = "between" -> <<IntV(f.value.x), IntV(f.value.y)>>
      [] f.op = "starts_with" -> <<[f.value EXCEPT !.w = "v%"]>>
      [] f.op = "ends_with" -> <<[f.value EXCEPT !.w = "%v"]>>
      [] f.op = "contains" -> <<[f.value EXCEPT !.w = "%v%"]>>
      [] OTHER -> <<f.value>>

FilterValues(f) ==
    LET ls == LeavesOf(f)
    IN  Flatten([i \in 1..Len(ls) |-> LeafValues(ls[i])])

OperationOf(p) == IF p.operation = "" THEN "select" ELSE p.operation

\* the keys of plan.Data in the order the text lists them
KeysInText(text, p) ==
    LET IsKey(t) == t.k = "id" /\ t.s \in DOMAIN p.data
        ks == SelectSeq(text, IsKey)
    IN  [i \in 1..Len(ks) |-> ks[i].s]

SelectorValues(p) == IF p.id # Nil THEN <<p.id>> ELSE FilterValues(p.filters)

\* the value each placeholder of the text stands for, in emission order
ExpectedValues(p, text) ==
    LET ks == KeysInText(text, p)
        dataValues == [i \in 1..Len(ks) |-> p.data[ks[i]]]
    IN  CASE OperationOf(p) = "create" -> dataValues
          [] OperationOf(p) = "update" -> dataValues \o SelectorValues(p)
          [] OperationOf(p) = "delete" -> SelectorValues(p)
          [] OTHER -> FilterValues(p.filters)
                      \o <<IntV(p.limit), IntV(p.offset)>>

Built == res.st = "ok"

(***************************************************************************)
(* C1: in every successful relational build the number of placeholders of  *)
(* the text equals len(params) and every integer of 1..len(params) occurs  *)
(* as a placeholder number exactly once.                                   *)
(***************************************************************************)
C1_PlaceholdersMatchParams ==
    Built =>
        LET phs == Placeholders(res.text)
        IN  /\ Len(phs) = Len(res.params)
            /\ \A n \in 1..Len(res.params) :
                   Cardinality({ i \in 1..Len(phs) : phs[i].n = n }) = 1

(***************************************************************************)
(* C2: in every successful relational build the i-th placeholder of the    *)
(* text, read left to right, is $i and params[i-1] is the value it stands  *)
(* for: filter values in pre-order of the tree, the SET values before the  *)
(* WHERE value in an update, limit then offset last in a select.           *)
(***************************************************************************)
C2_PlaceholderOrder ==
    Built =>
        LET phs == Placeholders(res.text)
        IN  /\ \A i \in 1..Len(phs) : phs[i].n = i
            /\ res.params = ExpectedValues(plan, res.text)

(***************************************************************************)
(* C3: two BuildQuery runs on the same plan return the same text and the   *)
(* same params, and the keys of a create or update are listed in           *)
(* lexicographic order.                                                    *)
(***************************************************************************)
LexRank(k) == CASE k = "age" -> 1 [] k = "email" -> 2 [] k = "name" -> 3 [] OTHER -> 0

C3_Deterministic ==
    calls >= 1 =>
        /\ res = first
        /\ Built =>
               LET ks == KeysInText(res.text, plan)
               IN  \A i, j \in 1..Len(ks) : i < j => LexRank(ks[i]) < LexRank(ks[j])

(***************************************************************************)
(* C8: a between comparison emits col BETWEEN $n AND $n+1 and appends two  *)
(* parameters, the low bound at params[n-1] and the high bound at          *)
(* params[n]; the next placeholder after it is $n+2.                       *)
(***************************************************************************)
IsBetween(f) == f.op = "between"

C8_BetweenTwoParams ==
    (Built /\ OperationOf(plan) = "select") =>
        LET text == res.text
            leaves == SelectSeq(LeavesOf(plan.filters), IsBetween)
            at == { i \in 1..Len(text) : text[i] = Lit("BETWEEN") }
            \* the k-th BETWEEN of the text
            pos(k) == CHOOSE i \in at : Cardinality({ j \in at : j < i }) = k - 1
        IN  /\ Cardinality(at) = Len(leaves)
            /\ \A k \in 1..Len(leaves) :
                   LET i == pos(k)
                       n == text[i + 1].n
                       later == { j \in (i + 4)..Len(text) : IsPh(text[j]) }
                   IN  /\ IsPh(text[i + 1]) /\ IsPh(text[i + 3])
                       /\ text[i + 3].n = n + 1
                       /\ n + 1 <= Len(res.params)
                       /\ res.params[n] = IntV(leaves[k].value.x)
                       /\ res.params[n + 1] = IntV(leaves[k].value.y)
                       /\ \A j \in later :
                              (\A h \in later : j <= h) => text[j].n = n + 2

(***************************************************************************)
(* C9: a comparison's placeholder carries a cast exactly when the operator *)
(* is one of = != in not_in and the column type is one of uuid, json,      *)
(* binary, timestamp (::uuid, ::jsonb, ::bytea, ::timestamp); every other  *)
(* placeholder of the statement is bare.                                   *)
(***************************************************************************)
CastSuffix(dt) ==
    CASE dt = "uuid" -> "uuid"
      [] dt = "json" -> "jsonb"
      [] dt = "binary" -> "bytea"
      [] dt = "timestamp" -> "timestamp"
      [] OTHER -> ""

LeafCasts(f) ==
    CASE f.op \in {"=", "!=", "in", "not_in"} -> <<CastSuffix(f.left.dt)>>
      [] f.op \in {"is_null", "not_null"} -> <<>>
      [] f.op = "between" -> <<"", "">>
      [] OTHER -> <<"">>

FilterCasts(f) ==
    LET ls == LeavesOf(f)
    IN  Flatten([i \in 1..Len(ls) |-> LeafCasts(ls[i])])

SelectorCasts(p) == IF p.id # Nil THEN <<"">> ELSE FilterCasts(p.filters)

Bare(n) == [i \in 1..n |-> ""]

C9_CastPlacement ==
    Built =>
        LET phs == Placeholders(res.text)
            casts == [i \in 1..Len(phs) |-> phs[i].cast]
            keys == Cardinality(DOMAIN plan.data)
        IN  casts = CASE OperationOf(plan) = "create" -> Bare(keys)
                      [] OperationOf(plan) = "update" ->
                             Bare(keys) \o SelectorCasts(plan)
                      [] OperationOf(plan) = "delete" -> SelectorCasts(plan)
                      [] OTHER -> FilterCasts(plan.filters) \o Bare(2)

\* an in-comparison on a json column was built and its placeholder is cast
C9_Witness ==
    /\ Built
    /\ plan.filters.kind = "cmp"
    /\ plan.filters.op = "in"
    /\ plan.filters.left.dt = "json"
    /\ \E i \in 1..Len(res.text) : IsPh(res.text[i]) /\ res.text[i].cast = "jsonb"

(***************************************************************************)
(* The server: main() creates one QueryBuilder and hands it to the API     *)
(* server, whose request handlers run concurrently and all call BuildQuery *)
(* on it.  A handler's call is taken line by line (builder.go line numbers *)
(* in the action names); each line is one step.  The handlers' plans are   *)
(* a delete by id and a select without filters, whose builds are straight  *)
(* lines of code.                                                          *)
(***************************************************************************)
ConcPlans ==
    { [BasePlan EXCEPT !.operation = "delete", !.id = IntV(i)] : i \in {1, 2} }
    \cup { [BasePlan EXCEPT !.limit = 10, !.offset = 5] }

SrvInit ==
    /\ SeqIdle
    /\ AuxIdle
    /\ ExeIdle
    /\ DocIdle
    /\ cqb = NewQueryBuilder
    /\ hplan \in [Handlers -> ConcPlans]
    /\ hpc = [h \in Handlers |-> "L65"]
    /\ hloc = [h \in Handlers |-> <<0, 0>>]
    /\ hres = [h \in Handlers |-> NoResult]

Goto(h, l) == hpc' = [hpc EXCEPT ![h] = l]

\* qb.params = []interface{}{}
L65(h) ==
    /\ hpc[h] = "L65"
    /\ cqb' = [cqb EXCEPT !.params = <<>>]
    /\ Goto(h, "L66")
    /\ UNCHANGED <<seqVars, exeVars, docVars, auxVars, hplan, hloc, hres>>

\* qb.paramCount = 0, then the switch on the operation
L66(h) ==
    /\ hpc[h] = "L66"
    /\ cqb' = [cqb EXCEPT !.paramCount = 0]
    /\ Goto(h, IF hplan[h].operation = "delete" THEN "L207" ELSE "L517")
    /\ UNCHANGED <<seqVars, exeVars, docVars, auxVars, hplan, hloc, hres>>

\* buildDelete: qb.paramCount++
L207(h) ==
    /\ hpc[h] = "L207"
    /\ cqb' = [cqb EXCEPT !.paramCount = @ + 1]
    /\ Goto(h, "L208")
    /\ UNCHANGED <<seqVars, exeVars, docVars, auxVars, hplan, hloc, hres>>

\* where = Sprintf("WHERE %s = $%d", pk, qb.paramCount)
L208(h) ==
    /\ hpc[h] = "L208"
    /\ hloc' = [hloc EXCEPT ![h] = <<cqb.paramCount, 0>>]
    /\ Goto(h, "L209")
    /\ UNCHANGED <<seqVars, exeVars, docVars, auxVars, cqb, hplan, hres>>

\* qb.params = append(qb.params, plan.ID)
L209(h) ==
    /\ hpc[h] = "L209"
    /\ cqb' = [cqb EXCEPT !.params = Append(@, hplan[h].id)]
    /\ Goto(h, "L223")
    /\ UNCHANGED <<seqVars, exeVars, docVars, auxVars, hplan, hloc, hres>>

\* return sql, qb.params, nil
L223(h) ==
    /\ hpc[h] = "L223"
    /\ hres' = [hres EXCEPT ![h] =
                  [text |-> <<Lit("DELETE FROM"), Ident(hplan[h].table), Lit("WHERE"),
                              Ident(hplan[h].pk.name), Lit("="), Ph(hloc[h][1]),
                              Lit(";")>>,
                   params |-> cqb.params, st |-> "ok"]]
    /\ Goto(h, "done")
    /\ UNCHANGED <<seqVars, exeVars, docVars, auxVars, cqb, hplan, hloc>>

\* buildPaginationClause: qb.paramCount++
L517(h) ==
    /\ hpc[h] = "L517"
    /\ cqb' = [cqb EXCEPT !.paramCount = @ + 1]
    /\ Goto(h, "L518")
    /\ UNCHANGED <<seqVars, exeVars, docVars, auxVars, hplan, hloc, hres>>

\* limitParam := qb.paramCount
L518(h) ==
    /\ hpc[h] = "L518"
    /\ hloc' = [hloc EXCEPT ![h] = <<cqb.paramCount, 0>>]
    /\ Goto(h, "L519")
    /\ UNCHANGED <<seqVars, exeVars, docVars, auxVars, cqb, hplan, hres>>

\* qb.params = append(qb.params, plan.Pagination.Limit)
L519(h) ==
    /\ hpc[h] = "L519"
    /\ cqb' = [cqb EXCEPT !.params = Append(@, IntV(hplan[h].limit))]
    /\ Goto(h, "L521")
    /\ UNCHANGED <<seqVars, exeVars, docVars, auxVars, hplan, hloc, hres>>

\* qb.paramCount++
L521(h) ==
    /\ hpc[h] = "L521"
    /\ cqb' = [cqb EXCEPT !.paramCount = @ + 1]
    /\ Goto(h, "L522")
    /\ UNCHANGED <<seqVars, exeVars, docVars, auxVars, hplan, hloc, hres>>

\* offsetParam := qb.paramCount
L522(h) ==
    /\ hpc[h] = "L522"
    /\ hloc' = [hloc EXCEPT ![h] = <<@[1], cqb.paramCount>>]
    /\ Goto(h, "L523")
    /\ UNCHANGED <<seqVars, exeVars, docVars, auxVars, cqb, hplan, hres>>

\* qb.params = append(qb.params, plan.Pagination.Offset)
L523(h) ==
    /\ hpc[h] = "L523"
    /\ cqb' = [cqb EXCEPT !.params = Append(@, IntV(hplan[h].offset))]
    /\ Goto(h, "L128")
    /\ UNCHANGED <<seqVars, exeVars, docVars, auxVars, hplan, hloc, hres>>

\* buildSelect: return sql, qb.params, nil
L128(h) ==
    /\ hpc[h] = "L128"
    /\ hres' = [hres EXCEPT ![h] =
                  [text |-> buildSelectClause(hplan[h]) \o buildFromClause(hplan[h])
                            \o <<Lit("LIMIT"), Ph(hloc[h][1]), Lit("OFFSET"),
                                 Ph(hloc[h][2]), Lit(";")>>,
                   params |-> cqb.params, st |-> "ok"]]
    /\ Goto(h, "done")
    /\ UNCHANGED <<seqVars, exeVars, docVars, auxVars, cqb, hplan, hloc>>

SrvNext ==
    \E h \in Handlers :
        \/ L65(h) \/ L66(h)
        \/ L207(h) \/ L208(h) \/ L209(h) \/ L223(h)
        \/ L517(h) \/ L518(h) \/ L519(h) \/ L521(h) \/ L522(h) \/ L523(h)
        \/ L128(h)

SpecServer == SrvInit /\ [][SrvNext]_vars

\* what BuildQuery returns for plan p when the call runs alone
Alone(p) ==
    LET r == BuildQuery(NewQueryBuilder, p, <<>>)
    IN  [text |-> r.text, params |-> r.params, st |-> r.st]

(***************************************************************************)
(* C4: under every interleaving of two handlers' BuildQuery calls on the   *)
(* shared builder, each call returns the text and params it returns when   *)
(* it runs alone.                                                          *)
(***************************************************************************)
C4_ConcurrentCallsIsolated ==
    \A h \in Handlers : hpc[h] = "done" => hres[h] = Alone(hplan[h])

(***************************************************************************)
(* The executors: Database.ExecuteQuery of the postgres adapter and of the *)
(* mongodb adapter.  The driver is the environment: each of its calls may  *)
(* fail, and the cursor may break before its last row.                     *)
(***************************************************************************)
BytesV(n) == [ty |-> "bytes", x |-> n, y |-> 0, w |-> ""]

\* rows as the driver scans them: the values of the columns id, name
DriverRows == { <<IntV(1), BytesV(1)>>, <<IntV(2), StrV(2)>>, <<IntV(3), Nil>> }

Cursors == UNION { [1..n -> DriverRows] : n \in 0..MaxRows }

\* postgres: []byte becomes string, every other value is kept
ToEntry(row) ==
    LET conv(val) == IF val.ty = "bytes" THEN [val EXCEPT !.ty = "string"] ELSE val
    IN  [id |-> conv(row[1]), name |-> conv(row[2])]

\* mongodb: cursor.All decodes a document into a map, values as they are
Decode(row) == [id |-> row[1], name |-> row[2]]

Failed == [rows |-> <<>>, err |-> TRUE]

ExeInit ==
    /\ SeqIdle
    /\ AuxIdle
    /\ SrvIdle
    /\ DocIdle
    /\ xdb \in {"postgres", "mongodb"}
    /\ xquery \in {"sql", "find", "aggregate", "count"}
    /\ xcursor \in Cursors
    /\ xpc = "start"
    /\ xresults = <<>>
    /\ xfail = ""
    /\ xret = NoRows

Return(r, why) ==
    /\ xret' = r
    /\ xfail' = why
    /\ xpc' = "done"

\* postgres: sql, ok := query.(string)
PgTypeCheck ==
    /\ xdb = "postgres" /\ xpc = "start"
    /\ IF xquery # "sql" THEN Return(Failed, "type")
       ELSE xpc' = "query" /\ UNCHANGED <<xret, xfail>>
    /\ UNCHANGED <<seqVars, srvVars, docVars, auxVars, xdb, xquery, xcursor, xresults>>

\* rows, err := d.db.Query(sql, args...)
PgQuery ==
    /\ xdb = "postgres" /\ xpc = "query"
    /\ \E ok \in BOOLEAN :
           IF ~ok THEN Return(Failed, "query")
           ELSE xpc' = "columns" /\ UNCHANGED <<xret, xfail>>
    /\ UNCHANGED <<seqVars, srvVars, docVars, auxVars, xdb, xquery, xcursor, xresults>>

\* columns, err := rows.Columns()
PgColumns ==
    /\ xdb = "postgres" /\ xpc = "columns"
    /\ \E ok \in BOOLEAN :
           IF ~ok THEN Return(Failed, "columns")
           ELSE xpc' = "next" /\ UNCHANGED <<xret, xfail>>
    /\ UNCHANGED <<seqVars, srvVars, docVars, auxVars, xdb, xquery, xcursor, xresults>>

\* what ExecuteQuery returns when rows.Scan fails
scanFailed(results) == Failed

\* for rows.Next() { rows.Scan ; results = append(results, entry) }
PgScan ==
    /\ xdb = "postgres" /\ xpc = "next"
    /\ Len(xresults) < Len(xcursor)
    /\ \E ok \in BOOLEAN :
           IF ~ok THEN Return(scanFailed(xresults), "scan") /\ UNCHANGED xresults
           ELSE /\ xresults' = Append(xresults, ToEntry(xcursor[Len(xresults) + 1]))
                /\ UNCHANGED <<xpc, xret, xfail>>
    /\ UNCHANGED <<seqVars, srvVars, docVars, auxVars, xdb, xquery, xcursor>>

iterResult_unchecked(results, iterErr) == [rows |-> results, err |-> FALSE]

\* if err := rows.Err(); err != nil { return nil, err } ; return results, nil
iterResult(results, iterErr) ==
    IF iterErr THEN Failed ELSE [rows |-> results, err |-> FALSE]

\* rows.Next() returns false: the cursor is exhausted, or it broke
PgEnd ==
    /\ xdb = "postgres" /\ xpc = "next"
    /\ \E iterErr \in BOOLEAN :
           /\ ~iterErr => Len(xresults) = Len(xcursor)
           /\ Return(iterResult(xresults, iterErr), IF iterErr THEN "iter" ELSE "")
    /\ UNCHANGED <<seqVars, srvVars, docVars, auxVars, xdb, xquery, xcursor, xresults>>

\* mongodb: mq, ok := query.(*MongoQuery), and the switch on mq.Operation
MgTypeCheck ==
    /\ xdb = "mongodb" /\ xpc = "start"
    /\ IF xquery \notin {"find", "aggregate"} THEN Return(Failed, "type")
       ELSE xpc' = "find" /\ UNCHANGED <<xret, xfail>>
    /\ UNCHANGED <<seqVars, srvVars, docVars, auxVars, xdb, xquery, xcursor, xresults>>

\* cursor, err := coll.Find(...) or coll.Aggregate(...)
MgFind ==
    /\ xdb = "mongodb" /\ xpc = "find"
    /\ \E ok \in BOOLEAN :
           IF ~ok THEN Return(Failed, "find")
           ELSE xpc' = "all" /\ UNCHANGED <<xret, xfail>>
    /\ UNCHANGED <<seqVars, srvVars, docVars, auxVars, xdb, xquery, xcursor, xresults>>

\* err = cursor.All(d.ctx, &results); if err != nil { return nil, err }
allResult(results, allErr) ==
    IF allErr THEN Failed ELSE [rows |-> results, err |-> FALSE]

\* cursor.All fills results document by document and stops at an error
MgAll ==
    /\ xdb = "mongodb" /\ xpc = "all"
    /\ \E k \in 0..Len(xcursor), allErr \in BOOLEAN :
           /\ ~allErr => k = Len(xcursor)
           /\ xresults' = [i \in 1..k |-> Decode(xcursor[i])]
           /\ Return(allResult(xresults', allErr), IF allErr THEN "all" ELSE "")
    /\ UNCHANGED <<seqVars, srvVars, docVars, auxVars, xdb, xquery, xcursor>>

ExeNext ==
    \/ PgTypeCheck \/ PgQuery \/ PgColumns \/ PgScan \/ PgEnd
    \/ MgTypeCheck \/ MgFind \/ MgAll

SpecExec == ExeInit /\ [][ExeNext]_vars

\* every row of the cursor, in cursor order, as the backend hands rows out
RowsOut == [i \in 1..Len(xcursor) |->
               IF xdb = "postgres" THEN ToEntry(xcursor[i]) ELSE Decode(xcursor[i])]

(***************************************************************************)
(* C5: ExecuteQuery of both executors never returns partial rows: when any *)
(* driver call failed the result is (no rows, error); rows are returned    *)
(* only with a nil error and are then all rows of the cursor, in order.    *)
(***************************************************************************)
C5_NoPartialRows ==
    xpc = "done" =>
        /\ xfail # "" => (xret.err /\ xret.rows = <<>>)
        /\ xret.err => xret.rows = <<>>
        /\ ~xret.err => xret.rows = RowsOut

\* the cursor broke after a row had been read, and an error came back
C5_Witness ==
    /\ xpc = "done"
    /\ xfail \in {"iter", "scan", "all"}
    /\ Len(xresults) >= 1
    /\ xret = Failed

(***************************************************************************)
(* The document query builder (mongodb QueryBuilder).  A call returns      *)
(* [query, st]: the *MongoQuery and "ok", or no query and "err"; "panic"   *)
(* when the call is aborted by a nil dereference.                          *)
(***************************************************************************)
BoolV(b) == [ty |-> "bool", x |-> IF b THEN 1 ELSE 0, y |-> 0, w |-> ""]

DocOk(doc) == [doc |-> doc, st |-> "ok"]
DocFail(st) == [doc |-> NilDoc, st |-> st]

ToUpper(s) ==
    CASE s = "and" -> "AND" [] s = "or" -> "OR" [] s = "not" -> "NOT" [] OTHER -> s

convertOperator(op, value) ==
    CASE op \in {"=", "eq"} -> [op |-> "$eq", val |-> value, st |-> "ok"]
      [] op \in {"!=", "ne"} -> [op |-> "$ne", val |-> value, st |-> "ok"]
      [] op \in {">", "gt"} -> [op |-> "$gt", val |-> value, st |-> "ok"]
      [] op \in {">=", "gte"} -> [op |-> "$gte", val |-> value, st |-> "ok"]
      [] op \in {"<", "lt"} -> [op |-> "$lt", val |-> value, st |-> "ok"]
      [] op \in {"<=", "lte"} -> [op |-> "$lte", val |-> value, st |-> "ok"]
      [] op = "in" -> [op |-> "$in", val |-> value, st |-> "ok"]
      [] op \in {"not_in", "nin"} -> [op |-> "$nin", val |-> value, st |-> "ok"]
      [] op \in {"like", "contains"} ->
            IF value.ty # "string" THEN [op |-> "", val |-> Nil, st |-> "err"]
            ELSE [op |-> "$regex", val |-> value, st |-> "ok"]
      [] op = "is_null" -> [op |-> "$exists", val |-> BoolV(FALSE), st |-> "ok"]
      [] op = "not_null" -> [op |-> "$exists", val |-> BoolV(TRUE), st |-> "ok"]
      [] OTHER -> [op |-> "", val |-> Nil, st |-> "err"]

\* f.Value is a pointer: f.Value.Value of a comparison without value aborts
mongoBuildComparisonFilter(f) ==
    IF f.value = Nil THEN DocFail("panic")
    ELSE LET fieldName == f.left.name
             c == convertOperator(f.op, f.value)
         IN  IF c.st # "ok" THEN DocFail(c.st)
             ELSE IF c.op = "$eq" THEN DocOk(FieldDoc(fieldName, "", c.val))
             ELSE DocOk(FieldDoc(fieldName, c.op, c.val))

RECURSIVE buildFilterFromExpr(_)
RECURSIVE mongoBuildLogicalFilter(_)
RECURSIVE mongoBuildClauses(_, _)

\* the loop over f.Nodes of an AND or an OR
mongoBuildClauses(nodes, clauses) ==
    IF nodes = <<>> THEN [clauses |-> clauses, st |-> "ok"]
    ELSE LET childFilter == buildFilterFromExpr(Head(nodes))
         IN  IF childFilter.st # "ok" THEN [clauses |-> <<>>, st |-> childFilter.st]
             ELSE mongoBuildClauses(Tail(nodes), Append(clauses, childFilter.doc))

mongoBuildLogicalFilter(f) ==
    CASE ToUpper(f.op) = "AND" ->
            LET l == mongoBuildClauses(f.nodes, <<>>)
            IN  IF l.st # "ok" THEN DocFail(l.st) ELSE DocOk(LogicDoc("$and", l.clauses))
      [] ToUpper(f.op) = "OR" ->
            LET l == mongoBuildClauses(f.nodes, <<>>)
            IN  IF l.st # "ok" THEN DocFail(l.st) ELSE DocOk(LogicDoc("$or", l.clauses))
      [] OTHER -> DocFail("err")

buildFilterFromExpr(expr) ==
    CASE expr.kind = "nil" -> DocOk(EmptyDoc)
      [] expr.kind = "cmp" -> mongoBuildComparisonFilter(expr)
      [] expr.kind = "log" -> mongoBuildLogicalFilter(expr)
      [] OTHER -> DocFail("err")

MgOk(q) == [query |-> q, st |-> "ok"]
MgFail(st) == [query |-> NoQuery, st |-> st]

mongoBuildFindQuery(p) ==
    LET filter == buildFilterFromExpr(p.filters)
        limit == IF p.limit > 0 THEN SetTo(p.limit) ELSE Unset
        skip == IF p.offset > 0 THEN SetTo(p.offset) ELSE Unset
        \* s.Column is dereferenced: a sort on an aggregate alias aborts
        sortAborts == \E i \in 1..Len(p.sort) : ~p.sort[i].hasCol
        sortDoc ==
            [i \in 1..Len(p.sort) |->
                LET s0 == p.sort[i]
                    direction == IF s0.direction \in {"desc", "DESC", "Desc"}
                                 THEN -1 ELSE 1
                    fieldName == IF s0.column.alias # ""
                                 THEN <<s0.column.alias, s0.column.name>>
                                 ELSE <<s0.column.name>>
                IN  [key |-> fieldName, value |-> direction]]
    IN  IF filter.st # "ok" THEN MgFail(filter.st)
        ELSE IF sortAborts \/ p.rootNil THEN MgFail("panic")
        ELSE MgOk([NoQuery EXCEPT
                     !.collection = p.table, !.operation = "find",
                     !.filter = filter.doc,
                     !.options = [set |-> TRUE, limit |-> limit, skip |-> skip,
                                  sort |-> sortDoc]])

mongoBuildInsert(p) ==
    IF DOMAIN p.data = {} THEN MgFail("err")
    ELSE IF p.rootNil THEN MgFail("panic")
    ELSE MgOk([NoQuery EXCEPT
                 !.collection = p.table, !.operation = "insert",
                 !.document = [set |-> TRUE, data |-> p.data]])

mongoBuildUpdate(p) ==
    LET filter == buildFilterFromExpr(p.filters)
    IN  IF filter.st # "ok" THEN MgFail(filter.st)
        ELSE IF p.rootNil THEN MgFail("panic")
        ELSE MgOk([NoQuery EXCEPT
                     !.collection = p.table, !.operation = "update",
                     !.filter = filter.doc,
                     !.update = [set |-> TRUE, data |-> p.data]])

mongoBuildDelete(p) ==
    LET filter == buildFilterFromExpr(p.filters)
    IN  IF filter.st # "ok" THEN MgFail(filter.st)
        ELSE IF p.rootNil THEN MgFail("panic")
        ELSE MgOk([NoQuery EXCEPT
                     !.collection = p.table, !.operation = "delete",
                     !.filter = filter.doc])

mongoBuildQuery(p) ==
    IF p.isNil THEN MgFail("panic")
    ELSE CASE p.operation = "select" -> mongoBuildFindQuery(p)
           [] p.operation = "create" -> mongoBuildInsert(p)
           [] p.operation = "update" -> mongoBuildUpdate(p)
           [] p.operation = "delete" -> mongoBuildDelete(p)
           [] OTHER -> MgFail("err")

(***************************************************************************)
(* Plans handed to the document builder.                                   *)
(***************************************************************************)
DocLeaves ==
    { Cmp(Col("name", "string"), op, ValueFor(op)) : op \in Operators }
    \cup { Cmp(Col("age", "integer"), op, IntV(7)) :
              op \in {"=", ">", "like", "contains", "is_null", "not_null", "regex"} }

DocNestLeaves ==
    { Cmp(Col("name", "string"), "=", StrV(1)),
      Cmp(Col("age", "integer"), ">", IntV(7)),
      Cmp(Col("age", "integer"), "between", PairV(1, 5)),
      Cmp(Col("name", "string"), "is_null", Nil) }

DocFlat ==
    { Log(op, s) : op \in {"AND", "OR", "NOT", "and"},
                   s \in SeqsUpTo(DocNestLeaves, MaxNodes) }

DocNested ==
    { Log(op, <<t>>) : op \in {"AND", "OR", "NOT"}, t \in DocFlat }
    \cup { Log(op, <<l, t>>) : op \in {"AND", "OR"}, l \in DocNestLeaves,
                               t \in { n \in DocFlat : Len(n.nodes) = 1 } }

DocTrees == {NoFilter} \cup DocLeaves \cup DocFlat \cup DocNested
DocSmallTrees == {NoFilter} \cup DocNestLeaves
                 \cup { t \in DocFlat : Len(t.nodes) = 1 }

DocPlans ==
    { [BasePlan EXCEPT !.filters = f] : f \in DocTrees }
    \cup
    { [BasePlan EXCEPT !.groupBy = g, !.aggregates = a, !.sort = so,
                       !.limit = pg[1], !.offset = pg[2], !.filters = f] :
        g \in GroupLists, a \in AggLists, so \in SortLists,
        pg \in Pages \cup {<<0, 5>>},
        f \in {NoFilter, Cmp(Col("name", "string"), "=", StrV(1))} }
    \cup
    { [BasePlan EXCEPT !.operation = "create", !.data = d] : d \in DataSets }
    \cup
    { [BasePlan EXCEPT !.operation = o, !.data = d, !.id = i, !.filters = f] :
        o \in {"update", "delete"},
        d \in { [k \in K |-> DataValue(k)] : K \in {{}, {"name"}} },
        i \in {Nil, IntV(7)}, f \in DocSmallTrees }
    \cup OddPlans \cup { [BasePlan EXCEPT !.operation = ""] }

DocInit ==
    /\ SeqIdle
    /\ AuxIdle
    /\ SrvIdle
    /\ ExeIdle
    /\ mplan \in DocPlans
    /\ mres = [query |-> NoQuery, st |-> "none"]

\* one BuildQuery call of the document builder
DocBuild ==
    /\ mres.st = "none"
    /\ mres' = mongoBuildQuery(mplan)
    /\ UNCHANGED <<seqVars, srvVars, exeVars, auxVars, mplan>>

DocNext == DocBuild

SpecDoc == DocInit /\ [][DocNext]_vars

DocBuilt == mres.st = "ok"

(***************************************************************************)
(* C6: for an update or delete plan with an id and no filters the document *)
(* builder's command carries the filter selecting on that id.              *)
(***************************************************************************)
C6_IdSelector ==
    (/\ DocBuilt
     /\ mplan.operation \in {"update", "delete"}
     /\ mplan.filters = NoFilter
     /\ mplan.id # Nil)
    => mres.query.filter = FieldDoc(mplan.pk.name, "", mplan.id)

(***************************************************************************)
(* C7: the document builder routes by the plan: a select with group_by or  *)
(* aggregates gives an aggregate command with a pipeline, a select with    *)
(* neither gives find, create gives insert, update update, delete delete.  *)
(***************************************************************************)
C7_Routing ==
    DocBuilt =>
        CASE mplan.operation = "select" ->
                IF Len(mplan.groupBy) > 0 \/ Len(mplan.aggregates) > 0
                THEN /\ mres.query.operation = "aggregate"
                     /\ mres.query.pipeline # <<>>
                ELSE mres.query.operation = "find"
          [] mplan.operation = "create" -> mres.query.operation = "insert"
          [] mplan.operation = "update" -> mres.query.operation = "update"
          [] mplan.operation = "delete" -> mres.query.operation = "delete"
          [] OTHER -> FALSE

(***************************************************************************)
(* C10: every find command carries the plan's pagination on its options:   *)
(* options.limit = plan.limit and options.skip = plan.offset, for every    *)
(* value, 0 included.                                                      *)
(***************************************************************************)
C10_Pagination ==
    (DocBuilt /\ mres.query.operation = "find") =>
        /\ mres.query.options.set
        /\ mres.query.options.limit = SetTo(mplan.limit)
        /\ mres.query.options.skip = SetTo(mplan.offset)

(***************************************************************************)
(* Reading a document command back against its plan.                       *)
(***************************************************************************)
\* the plan is one the builder can read to the end: no nil plan or model,
\* no sort entry without a column
DocReadable ==
    /\ ~mplan.isNil
    /\ ~mplan.rootNil
    /\ \A i \in 1..Len(mplan.sort) : mplan.sort[i].hasCol

DocCalled == mres.st # "none"

\* the operations whose command is built from the plan's filters
DocFiltered ==
    /\ DocCalled
    /\ DocReadable
    /\ mplan.operation \in {"select", "update", "delete"}

DocValueOps == {"=", "!=", ">", ">=", "<", "<=", "in", "not_in", "like", "contains"}
DocNullOps == {"is_null", "not_null"}

\* the document a comparison leaf stands for
LeafDoc(f) ==
    CASE f.op = "=" -> FieldDoc(f.left.name, "", f.value)
      [] f.op = "!=" -> FieldDoc(f.left.name, "$ne", f.value)
      [] f.op = ">" -> FieldDoc(f.left.name, "$gt", f.value)
      [] f.op = ">=" -> FieldDoc(f.left.name, "$gte", f.value)
      [] f.op = "<" -> FieldDoc(f.left.name, "$lt", f.value)
      [] f.op = "<=" -> FieldDoc(f.left.name, "$lte", f.value)
      [] f.op = "in" -> FieldDoc(f.left.name, "$in", f.value)
      [] f.op = "not_in" -> FieldDoc(f.left.name, "$nin", f.value)
      [] f.op \in {"like", "contains"} -> FieldDoc(f.left.name, "$regex", f.value)
      [] f.op = "is_null" -> FieldDoc(f.left.name, "$exists", BoolV(FALSE))
      [] f.op = "not_null" -> FieldDoc(f.left.name, "$exists", BoolV(TRUE))
      [] OTHER -> NilDoc

\* the document a filter tree stands for, children in the plan's order
RECURSIVE TreeDoc(_)
TreeDoc(f) ==
    CASE f.kind = "cmp" -> LeafDoc(f)
      [] f.kind = "log" ->
            LogicDoc(CASE f.op = "AND" -> "$and" [] f.op = "OR" -> "$or"
                       [] OTHER -> "$not",
                     [i \in 1..Len(f.nodes) |-> TreeDoc(f.nodes[i])])
      [] OTHER -> EmptyDoc

\* the logical operators of a filter tree
RECURSIVE LogOpsOf(_)
LogOpsOf(f) ==
    IF f.kind # "log" THEN {}
    ELSE {f.op} \cup UNION { LogOpsOf(f.nodes[i]) : i \in 1..Len(f.nodes) }

\* every leaf is a value-carrying comparison the document backend implements
ValueLeaves(f) ==
    \A i \in 1..Len(LeavesOf(f)) :
        /\ LeavesOf(f)[i].op \in DocValueOps
        /\ LeavesOf(f)[i].value # Nil
        /\ LeavesOf(f)[i].op \in {"like", "contains"}
              => LeavesOf(f)[i].value.ty = "string"

(***************************************************************************)
(* C11: the document builder compiles every logical filter node: AND to    *)
(* $and, OR to $or, NOT to $not, each over its compiled children in the    *)
(* plan's order, at every nesting depth.                                   *)
(***************************************************************************)
C11_LogicalCompiled ==
    (/\ DocFiltered
     /\ mplan.filters.kind = "log"
     /\ LogOpsOf(mplan.filters) \subseteq {"AND", "OR", "NOT"}
     /\ ValueLeaves(mplan.filters))
    => /\ mres.st = "ok"
       /\ mres.query.filter = TreeDoc(mplan.filters)

(***************************************************************************)
(* C12: a comparison leaf with one of the operators =, !=, >, >=, <, <=,   *)
(* in, not_in, like, contains, is_null, not_null and the value the IR      *)
(* prescribes (none for is_null and not_null) compiles to its filter:      *)
(* {field: value} for =, {field: {$op: value}} otherwise, $exists false /  *)
(* true for is_null / not_null.                                            *)
(***************************************************************************)
C12_ComparisonCompiled ==
    (/\ DocFiltered
     /\ mplan.filters.kind = "cmp"
     /\ mplan.filters.op \in DocValueOps \cup DocNullOps
     /\ mplan.filters.value = ValueFor(mplan.filters.op))
    => /\ mres.st = "ok"
       /\ mres.query.filter = LeafDoc(mplan.filters)

\* a comparison of the tree has an operator the document backend lacks
HasUnsupported(f) ==
    \E i \in 1..Len(LeavesOf(f)) :
        LeavesOf(f)[i].op \notin DocValueOps \cup DocNullOps

(***************************************************************************)
(* C13: when the filter tree holds, at any depth, a comparison whose       *)
(* operator the document backend does not implement, BuildQuery of a       *)
(* select, update or delete returns an error and no command.               *)
(***************************************************************************)
C13_UnsupportedOperatorError ==
    (DocFiltered /\ HasUnsupported(mplan.filters))
    => /\ mres.st = "err"
       /\ mres.query = NoQuery

\* the plan's filter reaches a starts_with, ends_with or contains comparison
\* whose value is not a string before any other comparison fails
WildMismatch(f) ==
    /\ f.kind = "cmp"
    /\ f.op \in {"starts_with", "ends_with", "contains"}
    /\ f.value # Nil
    /\ f.value.ty # "string"

(***************************************************************************)
(* C14: a starts_with, ends_with or contains comparison whose value is not *)
(* a string makes the relational BuildQuery return an error with empty     *)
(* text and no params; the call is not aborted.                            *)
(***************************************************************************)
C14_TypeMismatchIsError ==
    (/\ calls >= 1
     /\ plan.operation \in {"select", ""}
     /\ ~plan.isNil /\ ~plan.rootNil
     /\ \E i \in 1..Len(LeavesOf(plan.filters)) : WildMismatch(LeavesOf(plan.filters)[i]))
    => /\ res.st = "err"
       /\ res.text = <<>>
       /\ res.params = <<>>

(***************************************************************************)
(* Document schema resolution (schema_processor): ResolveFieldType and     *)
(* GenerateModelFromSchema.  A FieldStats is [isNil, counts, total, nulls, *)
(* samples], counts being the map TypeCounts; a field path is the sequence *)
(* of its dot-separated keys, the array-element path ending in "[]".       *)
(***************************************************************************)
TypeInteger == "integer"
TypeString == "string"
TypeDecimal == "decimal"
TypeBoolean == "boolean"
TypeTimestamp == "timestamp"
TypeJSON == "json"
TypeUUID == "uuid"
TypeBinary == "binary"

\* a string holding the decimal digits of n
NumStr(n) == [ty |-> "string", x |-> n, y |-> 0, w |-> "num"]

\* strconv.Atoi succeeds on strings of decimal digits only
Atoi(str) == [n |-> str.x, ok |-> str.w = "num"]

\* reading a Go map: the zero value for a missing key
Count(counts, t) == IF t \in DOMAIN counts THEN counts[t] ELSE 0

\* for fieldType, count := range stats.TypeCounts, in the order of the range
RECURSIVE mostCommon(_, _, _, _)
mostCommon(counts, order, maxCount, mostCommonType) ==
    IF order = <<>> THEN [maxCount |-> maxCount, mostCommonType |-> mostCommonType]
    ELSE IF counts[Head(order)] > maxCount
    THEN mostCommon(counts, Tail(order), counts[Head(order)], Head(order))
    ELSE mostCommon(counts, Tail(order), maxCount, mostCommonType)

isNullable_atLeast(stats) == 10 * stats.nulls >= stats.total

\* float64(NullCount) > float64(TotalCount) * 0.1: the double nearest 0.1
\* times a count rounds to a double in [count/10, count/10 + 0.1), so the
\* comparison with the whole number NullCount is 10 * NullCount > TotalCount
isNullable(stats) == 10 * stats.nulls > stats.total

areAllNumericStrings(values) ==
    \A i \in 1..Len(values) : values[i].ty = "string" => Atoi(values[i]).ok

ResolveFieldType(stats, order) ==
    IF stats.isNil \/ DOMAIN stats.counts = {}
    THEN [type |-> TypeString, nullable |-> TRUE]
    ELSE LET m == mostCommon(stats.counts, order, 0, "")
         IN  IF /\ m.maxCount < stats.total \div 2
                /\ Count(stats.counts, TypeInteger) > 0
                /\ Count(stats.counts, TypeString) > 0
                /\ areAllNumericStrings(stats.samples)
             THEN [type |-> TypeInteger, nullable |-> isNullable(stats)]
             ELSE [type |-> m.mostCommonType, nullable |-> isNullable(stats)]

HasSuffix(fieldPath, suffix) ==
    Len(fieldPath) > 0 /\ fieldPath[Len(fieldPath)] = suffix

\* for fieldPath, stats := range schema.Fields, in the order of the range;
\* typeOrder[fieldPath] is the order of the range inside ResolveFieldType
RECURSIVE rangeFields(_, _, _, _)
rangeFields(schemaFields, order, typeOrder, fields) ==
    IF order = <<>> THEN fields
    ELSE LET fieldPath == Head(order)
             r == ResolveFieldType(schemaFields[fieldPath], typeOrder[fieldPath])
         IN  IF HasSuffix(fieldPath, "[]")
             THEN rangeFields(schemaFields, Tail(order), typeOrder, fields)
             ELSE rangeFields(schemaFields, Tail(order), typeOrder,
                              Append(fields, [name |-> fieldPath, type |-> r.type,
                                              nullable |-> r.nullable]))

injectID_never(hasID, fields) == fields

\* if !hasID: the _id field goes in front
injectID(hasID, fields) ==
    IF hasID THEN fields
    ELSE <<[name |-> <<"_id">>, type |-> TypeUUID, nullable |-> FALSE]>> \o fields

GenerateModelFromSchema(collectionName, schemaFields, order, typeOrder) ==
    LET fields == rangeFields(schemaFields, order, typeOrder, <<>>)
        hasID == \E i \in 1..Len(fields) : fields[i].name = <<"_id">>
    IN  [name |-> collectionName, table |-> collectionName,
         primaryKey |-> <<"_id">>, fields |-> injectID(hasID, fields)]

\* the orders in which Go may range over the TypeCounts of every field
TypeOrders(schemaFields) ==
    { f \in [DOMAIN schemaFields -> UNION { Perms(DOMAIN schemaFields[p].counts) :
                                           p \in DOMAIN schemaFields }] :
        \A p \in DOMAIN schemaFields : f[p] \in Perms(DOMAIN schemaFields[p].counts) }

(***************************************************************************)
(* FieldStats and schemas handed to the resolver by a caller.              *)
(***************************************************************************)
NilStats == [isNil |-> TRUE, counts |-> NoFields, total |-> 0, nulls |-> 0,
             samples |-> <<>>]

CountsOf(i, s, b) ==
    [t \in ({TypeInteger} \cap (IF i > 0 THEN {TypeInteger} ELSE {}))
           \cup ({TypeString} \cap (IF s > 0 THEN {TypeString} ELSE {}))
           \cup ({TypeBoolean} \cap (IF b > 0 THEN {TypeBoolean} ELSE {})) |->
        CASE t = TypeInteger -> i [] t = TypeString -> s [] OTHER -> b]

\* up to two integer samples, then up to two string samples
SamplesOf(i, s, numeric) ==
    [k \in 1..(IF i > 1 THEN 2 ELSE i) |-> IntV(11 + k)]
    \o [k \in 1..(IF s > 1 THEN 2 ELSE s) |->
            IF numeric THEN NumStr(11 + k) ELSE StrV(k)]

StatsOf(i, s, b, n, numeric) ==
    [isNil |-> FALSE, counts |-> CountsOf(i, s, b), total |-> i + s + b + n,
     nulls |-> n, samples |-> SamplesOf(i, s, numeric)]

StatsSet ==
    { StatsOf(q[1], q[2], q[3], q[4], numeric) :
        q \in { c \in (0..MaxTotal) \X (0..MaxTotal) \X (0..2) \X (0..MaxTotal) :
                  c[1] + c[2] + c[3] + c[4] <= MaxTotal },
        numeric \in BOOLEAN }
    \cup {NilStats}

UUIDStats == [isNil |-> FALSE, counts |-> [t \in {TypeUUID} |-> 2], total |-> 2,
              nulls |-> 0, samples |-> <<>>]
ElemStats == [isNil |-> FALSE, counts |-> [t \in {TypeString} |-> 2], total |-> 2,
              nulls |-> 0, samples |-> <<>>]

Schemas ==
    { [p \in {<<"a">>} |-> st] : st \in StatsSet }
    \cup { [p \in {<<"_id">>, <<"a">>, <<"name">>} |->
              CASE p = <<"_id">> -> UUIDStats
                [] p = <<"a">> -> StatsOf(i, 2 - i, 0, 0, TRUE)
                [] OTHER -> StatsOf(0, 2, 0, 0, FALSE)] : i \in 0..2 }
    \cup { [p \in {<<"a">>, <<"tags">>, <<"tags", "[]">>} |->
              CASE p = <<"a">> -> StatsOf(2, 0, 0, 0, TRUE)
                [] p = <<"tags">> -> [UUIDStats EXCEPT !.counts = [t \in {TypeJSON} |-> 2]]
                [] OTHER -> ElemStats] }

RslInit ==
    /\ SeqIdle
    /\ SrvIdle
    /\ ExeIdle
    /\ DocIdle
    /\ ExtIdle
    /\ SchIdle
    /\ IntIdle
    /\ rschema \in Schemas
    /\ rout = NoType /\ rfirst = NoType /\ rcalls = 0
    /\ gmodel = NoModel /\ gfirst = NoModel /\ gcalls = 0

\* one ResolveFieldType call on the stats of field a
Resolve ==
    /\ rcalls < MaxCalls
    /\ \E order \in Perms(DOMAIN rschema[<<"a">>].counts) :
           LET r == ResolveFieldType(rschema[<<"a">>], order)
           IN  /\ rout' = r
               /\ rfirst' = IF rcalls = 0 THEN r ELSE rfirst
    /\ rcalls' = rcalls + 1
    /\ UNCHANGED <<seqVars, srvVars, exeVars, docVars, extVars, schVars, intVars,
                   rschema, gmodel, gfirst, gcalls>>

\* one GenerateModelFromSchema call on the schema
Generate ==
    /\ gcalls < MaxCalls
    /\ \E order \in Perms(DOMAIN rschema), typeOrder \in TypeOrders(rschema) :
           LET m == GenerateModelFromSchema("users", rschema, order, typeOrder)
           IN  /\ gmodel' = m
               /\ gfirst' = IF gcalls = 0 THEN m ELSE gfirst
    /\ gcalls' = gcalls + 1
    /\ UNCHANGED <<seqVars, srvVars, exeVars, docVars, extVars, schVars, intVars,
                   rschema, rout, rfirst, rcalls>>

RslNext == Resolve \/ Generate

SpecResolve == RslInit /\ [][RslNext]_vars

\* the stats ResolveFieldType was called on
Resolved == rschema[<<"a">>]

C17_NumericStringsAreInteger ==
    (/\ rcalls >= 1
     /\ ~Resolved.isNil
     /\ DOMAIN Resolved.counts = {TypeInteger, TypeString}
     /\ Resolved.counts[TypeInteger] = Resolved.counts[TypeString]
     /\ Resolved.nulls = 0
     /\ \E i \in 1..Len(Resolved.samples) : Resolved.samples[i].ty = "string"
     /\ \A i \in 1..Len(Resolved.samples) :
            Resolved.samples[i].ty = "string" => Resolved.samples[i].w = "num")
    => rout.type = TypeInteger

(***************************************************************************)
(* C18: schema resolution is deterministic: on the same schema every       *)
(* ResolveFieldType call returns the same type, ties for the highest count *)
(* included, and every GenerateModelFromSchema call returns the same       *)
(* model, fields in the same order.                                        *)
(***************************************************************************)
C18_ResolutionDeterministic ==
    /\ rcalls >= 1 => rout = rfirst
    /\ gcalls >= 1 => gmodel = gfirst

(***************************************************************************)
(* Document schema inference (InferSchema, analyzeDocument).  A document   *)
(* is a function from its keys to values; a nested document value names    *)
(* its document (SubDoc), an array value carries its length and the kind   *)
(* of its first element.  Strings are known by their form: digits, the     *)
(* UUID form, a date form, or none of these.                               *)
(***************************************************************************)
OidV == [ty |-> "oid", x |-> 1, y |-> 0, w |-> ""]
DocV(k) == [ty |-> "doc", x |-> k, y |-> 0, w |-> ""]
ArrV(n, elem) == [ty |-> "arr", x |-> n, y |-> 0, w |-> elem]

\* the nested documents of the samples
SubDoc(v) ==
    IF v.x = 1 THEN [k \in {"x"} |-> IntV(1)] ELSE [k \in {"x"} |-> Nil]

\* arr[0]
ArrHead(v) == [ty |-> v.w, x |-> 0, y |-> 0, w |-> ""]

isUUID(str) == str.w = "uuid"
isDateString(str) == str.w = "date"

inferTypeFromValue(value) ==
    CASE value.ty = "nil" -> TypeString
      [] value.ty = "bool" -> TypeBoolean
      [] value.ty = "int" -> TypeInteger
      [] value.ty = "float" -> TypeDecimal
      [] value.ty = "string" ->
            IF isUUID(value) THEN TypeUUID
            ELSE IF isDateString(value) THEN TypeTimestamp
            ELSE TypeString
      [] value.ty = "oid" -> TypeUUID
      [] value.ty = "datetime" -> TypeTimestamp
      [] value.ty = "doc" -> TypeJSON
      [] value.ty = "arr" -> TypeJSON
      [] value.ty = "binary" -> TypeBinary
      [] OTHER -> TypeString

\* &FieldStats{TypeCounts: make(...), SampleValues: make(..., 0, 5)}
NewStats == [isNil |-> FALSE, counts |-> NoFields, total |-> 0, nulls |-> 0,
             samples |-> <<>>]

\* fields[fieldPath], initialised when it is nil
StatsAt(fields, fieldPath) ==
    IF fieldPath \in DOMAIN fields THEN fields[fieldPath] ELSE NewStats

SetStats(fields, fieldPath, stats) ==
    [p \in DOMAIN fields \cup {fieldPath} |->
        IF p = fieldPath THEN stats ELSE fields[p]]

\* a key read as the path text it contributes: a field path is a sequence
\* of segments, "[]" marking the array-element suffix, so the key spelled
\* tags[] gives the same path text as the key tags followed by the suffix
Segments(key) == IF key = "tags[]" THEN <<"tags", "[]">> ELSE <<key>>

Bump_lost(counts, fieldType) == counts

\* stats.TypeCounts[fieldType]++
Bump(counts, fieldType) ==
    [t \in DOMAIN counts \cup {fieldType} |->
        Count(counts, t) + (IF t = fieldType THEN 1 ELSE 0)]

\* the one key order of a nested sample document (each has a single key)
KeyOrder(doc) == CHOOSE o \in Perms(DOMAIN doc) : TRUE

\* for key, value := range doc, in the order of the range
RECURSIVE analyzeDocument(_, _, _, _)
analyzeDocument(doc, order, prefix, fields) ==
    IF order = <<>> THEN fields
    ELSE
    LET key == Head(order)
        value == doc[key]
        fieldPath == prefix \o Segments(key)
        counted == [StatsAt(fields, fieldPath) EXCEPT !.total = @ + 1]
    IN
    IF value = Nil
    THEN analyzeDocument(doc, Tail(order), prefix,
             SetStats(fields, fieldPath, [counted EXCEPT !.nulls = @ + 1]))
    ELSE
    LET stats == [counted EXCEPT
                    !.counts = Bump(@, inferTypeFromValue(value)),
                    !.samples = IF Len(@) < 5 THEN Append(@, value) ELSE @]
        f1 == SetStats(fields, fieldPath, stats)
        f2 == IF value.ty = "doc"
              THEN analyzeDocument(SubDoc(value), KeyOrder(SubDoc(value)),
                                   fieldPath, f1)
              ELSE f1
        arrayFieldPath == Append(fieldPath, "[]")
        elemStats == StatsAt(f2, arrayFieldPath)
        f3 == IF value.ty = "arr" /\ value.x > 0
              THEN SetStats(f2, arrayFieldPath,
                       [elemStats EXCEPT
                          !.counts = Bump(@, inferTypeFromValue(ArrHead(value))),
                          !.total = @ + 1])
              ELSE f2
    IN  analyzeDocument(doc, Tail(order), prefix, f3)

\* the documents a sample can hold
SampleDocs ==
    { [k \in K |-> IF k = "_id" THEN OidV ELSE a] :
        K \in SUBSET {"_id", "a"}, a \in {Nil, IntV(12), NumStr(12)} }
    \cup { [k \in {"tags"} |-> ArrV(2, "string")],
           [k \in {"_id", "tags"} |-> IF k = "_id" THEN OidV ELSE ArrV(0, "")],
           [k \in {"sub"} |-> DocV(1)],
           [k \in {"tags", "tags[]"} |->
               IF k = "tags" THEN ArrV(2, "string") ELSE IntV(12)] }

SchInit ==
    /\ SeqIdle
    /\ SrvIdle
    /\ ExeIdle
    /\ DocIdle
    /\ ExtIdle
    /\ RslIdle
    /\ IntIdle
    /\ sdocs \in SeqsUpTo(SampleDocs, MaxDocs)
    /\ sidx = 0
    /\ sschema = NoFields
    /\ smodel = NoModel
    /\ spc = "infer"

\* InferSchema: one turn of the loop over the documents
Analyze ==
    /\ spc = "infer"
    /\ sidx < Len(sdocs)
    /\ \E order \in Perms(DOMAIN sdocs[sidx + 1]) :
           sschema' = analyzeDocument(sdocs[sidx + 1], order, <<>>, sschema)
    /\ sidx' = sidx + 1
    /\ UNCHANGED <<seqVars, srvVars, exeVars, docVars, extVars, rslVars, intVars,
                   sdocs, smodel, spc>>

\* InferSchema returns the schema and GenerateModelFromSchema turns it into
\* the collection's Model
SchGenerate ==
    /\ spc = "infer"
    /\ sidx = Len(sdocs)
    /\ \E order \in Perms(DOMAIN sschema), typeOrder \in TypeOrders(sschema) :
           smodel' = GenerateModelFromSchema("users", sschema, order, typeOrder)
    /\ spc' = "generated"
    /\ UNCHANGED <<seqVars, srvVars, exeVars, docVars, extVars, rslVars, intVars,
                   sdocs, sidx, sschema>>

SchNext == Analyze \/ SchGenerate

SpecSchema == SchInit /\ [][SchNext]_vars

\* the value a document holds at a field path, Nil when it holds none
ValueAt(doc, path) ==
    IF Head(path) \notin DOMAIN doc THEN Nil
    ELSE IF Len(path) = 1 THEN doc[Head(path)]
    ELSE IF doc[Head(path)].ty # "doc" THEN Nil
    ELSE IF path[2] \notin DOMAIN SubDoc(doc[Head(path)]) THEN Nil
    ELSE SubDoc(doc[Head(path)])[path[2]]

\* in how many of the sampled documents the path is absent or null
MissingIn(path) ==
    Cardinality({ i \in 1..Len(sdocs) : ValueAt(sdocs[i], path) = Nil })

(***************************************************************************)
(* C15: inference marks absence as nullability: a field path missing (key  *)
(* absent or value null) in more than 10% of the N sampled documents is    *)
(* emitted nullable, a path present and non-null in at least 90% of them   *)
(* is emitted not nullable.                                                *)
(***************************************************************************)
C15_AbsenceIsNullable ==
    spc = "generated" =>
        \A i \in 1..Len(smodel.fields) :
            smodel.fields[i].name \in DOMAIN sschema =>
                smodel.fields[i].nullable
                    = (10 * MissingIn(smodel.fields[i].name) > Len(sdocs))

Word(s) == [k |-> "word", s |-> s, up |-> FALSE]
UpperWord(s) == [k |-> "word", s |-> s, up |-> TRUE]
Blank == [k |-> "sp", s |-> " ", up |-> FALSE]
ArraySuffix == [k |-> "arr", s |-> "[]", up |-> FALSE]
TypeArgs == [k |-> "args", s |-> "(n)", up |-> FALSE]

ToLower_keep(text) == text
ToLower(text) == [i \in DOMAIN text |-> [text[i] EXCEPT !.up = FALSE]]

RECURSIVE TrimLeft(_)
TrimLeft(text) ==
    IF text # <<>> /\ Head(text).k = "sp" THEN TrimLeft(Tail(text)) ELSE text

RECURSIVE TrimRight(_)
TrimRight(text) ==
    IF text # <<>> /\ text[Len(text)].k = "sp"
    THEN TrimRight(SubSeq(text, 1, Len(text) - 1)) ELSE text

TrimSpace(text) == TrimRight(TrimLeft(text))

TrimSuffix(text, k) ==
    IF text # <<>> /\ text[Len(text)].k = k
    THEN SubSeq(text, 1, Len(text) - 1) ELSE text

\* strings.Split(pgType, "(")[0]
RECURSIVE BeforeArgs(_)
BeforeArgs(text) ==
    IF text = <<>> \/ Head(text).k = "args" THEN <<>>
    ELSE <<Head(text)>> \o BeforeArgs(Tail(text))

mapPostgreSQLTypeToJSON(pgType) ==
    LET basePGType == TrimSpace(BeforeArgs(TrimSuffix(TrimSpace(ToLower(pgType)), "arr")))
        \* the switch compares with lower-case literals
        name == IF Len(basePGType) = 1 /\ basePGType[1].k = "word"
                   /\ ~basePGType[1].up
                THEN basePGType[1].s ELSE ""
    IN  CASE name \in {"integer", "int", "int4", "smallint", "int2", "bigint", "int8",
                       "serial", "serial4", "bigserial", "serial8"} -> TypeInteger
          [] name \in {"text", "character varying", "varchar", "character", "char",
                       "name"} -> TypeString
          [] name \in {"numeric", "decimal", "money", "double precision", "float8",
                       "real", "float4"} -> TypeDecimal
          [] name \in {"boolean", "bool"} -> TypeBoolean
          [] name \in {"timestamp", "timestamp without time zone",
                       "timestamp with time zone", "timestamptz",
                       "timestamp at time zone", "date", "time",
                       "time without time zone", "time with time zone", "timetz"}
                -> TypeTimestamp
          [] name \in {"json", "jsonb"} -> TypeJSON
          [] name = "uuid" -> TypeUUID
          [] name \in {"bytea", "bit", "bit varying", "varbit"} -> TypeBinary
          [] OTHER -> TypeString

\* a ColumnInfo as GetTableColumns scans it
Column(name, dataType, nullable) ==
    [name |-> name, dataType |-> dataType, isNullable |-> nullable]

\* a table of the catalog: its columns by ordinal position and the columns
\* of its primary-key index (none when the table declares no primary key)
Table(name, columns, pk) == [name |-> name, columns |-> columns, pk |-> pk]

IdColumns ==
    <<Column("id", <<Word("integer")>>, FALSE),
      Column("name", <<Word("character varying"), TypeArgs>>, TRUE)>>
UidColumns ==
    <<Column("uid", <<UpperWord("uuid")>>, FALSE),
      Column("tags", <<Word("text"), ArraySuffix>>, TRUE)>>

CatalogTables ==
    { Table("users", IdColumns, pk) : pk \in {{}, {"id"}, {"id", "name"}} }
    \cup { Table("events", UidColumns, pk) : pk \in {{}, {"uid"}} }
    \cup { Table("empty", <<>>, {}) }

\* GetPrimaryKey: the attname of one row of the primary-key index (LIMIT 1),
\* "id" when the query has no rows
GetPrimaryKey(table) == IF table.pk = {} THEN {"id"} ELSE table.pk

\* the loop over the columns: one Field per column
FieldsOf(columns) ==
    [i \in 1..Len(columns) |->
        [name |-> columns[i].name,
         type |-> mapPostgreSQLTypeToJSON(columns[i].dataType),
         nullable |-> columns[i].isNullable]]

IntInit ==
    /\ SeqIdle
    /\ SrvIdle
    /\ ExeIdle
    /\ DocIdle
    /\ ExtIdle
    /\ SchIdle
    /\ RslIdle
    /\ itables \in SeqsUpTo(CatalogTables, MaxTables)
    /\ inamed \in BOOLEAN
    /\ inamed => Len(itables) > 0
    /\ iidx = 0
    /\ imodels = <<>>
    /\ ipc = "start"
    /\ ifile = NoFile
    /\ ierr = ""

\* GenerateAndSaveModels returns an error
IntFail(step) == ipc' = "failed" /\ ierr' = step

\* GenerateAndSaveModels, up to the call of GenerateModels: without table
\* names the tables are those GetAllTables finds (itables), and none is an
\* error
IntStart ==
    /\ ipc = "start"
    /\ IF inamed
       THEN ipc' = "run" /\ UNCHANGED ierr
       ELSE \E tablesOk \in BOOLEAN :
               IF ~tablesOk THEN IntFail("tables")
               ELSE IF Len(itables) = 0 THEN IntFail("notables")
               ELSE ipc' = "run" /\ UNCHANGED ierr
    /\ UNCHANGED <<seqVars, srvVars, exeVars, docVars, extVars, schVars, rslVars,
                   itables, iidx, imodels, inamed, ifile>>

\* GenerateModels: one turn of the loop over tableNames; each query of the
\* turn can fail, which ends the call with (nil, err)
GenTable ==
    /\ ipc = "run"
    /\ iidx < Len(itables)
    /\ LET table == itables[iidx + 1]
       IN  \E columnsOk \in BOOLEAN, pkOk \in BOOLEAN, pkName \in GetPrimaryKey(table) :
               IF ~columnsOk
               THEN imodels' = <<>> /\ IntFail("columns") /\ UNCHANGED iidx
               ELSE IF Len(table.columns) = 0
               THEN iidx' = iidx + 1 /\ UNCHANGED <<imodels, ipc, ierr>>
               ELSE IF ~pkOk
               THEN imodels' = <<>> /\ IntFail("pk") /\ UNCHANGED iidx
               ELSE /\ imodels' = Append(imodels,
                           [name |-> table.name, table |-> table.name,
                            primaryKey |-> pkName,
                            fields |-> FieldsOf(table.columns)])
                    /\ iidx' = iidx + 1
                    /\ UNCHANGED <<ipc, ierr>>
    /\ UNCHANGED <<seqVars, srvVars, exeVars, docVars, extVars, schVars, rslVars,
                   itables, inamed, ifile>>

\* return models, nil
GenReturn ==
    /\ ipc = "run"
    /\ iidx = Len(itables)
    /\ ipc' = "done"
    /\ UNCHANGED <<seqVars, srvVars, exeVars, docVars, extVars, schVars, rslVars,
                   itables, iidx, imodels, inamed, ifile, ierr>>

\* if len(models) == 0
noModels_never(models) == FALSE
noModels(models) == Len(models) = 0

\* what os.WriteFile leaves at the path: all of the data, or on an error
\* nothing or a part of it
WriteFile(models) ==
    {[state |-> "full", models |-> models], [state |-> "partial", models |-> <<>>],
     NoFile}

\* GenerateAndSaveModels, after GenerateModels returned the models: no model
\* is an error; the models are marshalled and written to outputPath
Save ==
    /\ ipc = "done"
    /\ IF noModels(imodels)
       THEN IntFail("nomodels") /\ UNCHANGED ifile
       ELSE \E marshalOk \in BOOLEAN, f \in WriteFile(imodels) :
               IF ~marshalOk THEN IntFail("marshal") /\ UNCHANGED ifile
               ELSE /\ ifile' = f
                    /\ IF f.state = "full"
                       THEN ipc' = "saved" /\ UNCHANGED ierr
                       ELSE IntFail("write")
    /\ UNCHANGED <<seqVars, srvVars, exeVars, docVars, extVars, schVars, rslVars,
                   itables, iidx, imodels, inamed>>

IntNext == IntStart \/ GenTable \/ GenReturn \/ Save

SpecIntrospect == IntInit /\ [][IntNext]_vars

(***************************************************************************)
(* C20: every model relational introspection emits is loadable by the      *)
(* registry: its primaryKey names one of the model's own fields, also for  *)
(* a table that declares no primary key.                                   *)
(***************************************************************************)
C20_PrimaryKeyIsField ==
    \A i \in 1..Len(imodels) :
        \E j \in 1..Len(imodels[i].fields) :
            imodels[i].fields[j].name = imodels[i].primaryKey


(***************************************************************************)
(* C21: GenerateAndSaveModels is all-or-nothing.  The output file is       *)
(* written only after every requested table was introspected without error *)
(* and at least one model was produced; when the database has no tables,   *)
(* when the column or primary-key lookup of a table fails, or when every   *)
(* table was skipped for having no columns, the call returns an error and  *)
(* the file is left unwritten.                                             *)
(***************************************************************************)
\* the tables of the request that have columns
WithColumns(tables) == SelectSeq(tables, LAMBDA t : Len(t.columns) > 0)

IntReturned == ipc \in {"saved", "failed"}

C21_AllOrNothing ==
    /\ ifile # NoFile =>
           /\ iidx = Len(itables)
           /\ Len(imodels) >= 1
           /\ Len(imodels) = Len(WithColumns(itables))
           /\ ierr \in {"", "write"}
           /\ ifile.state = "full" => ifile.models = imodels
    /\ ierr \in {"tables", "notables", "columns", "pk", "nomodels"} =>
           ipc = "failed" /\ ifile = NoFile
    /\ IntReturned /\ WithColumns(itables) = <<>> => ipc = "failed" /\ ifile = NoFile
    /\ ipc = "saved" => ierr = "" /\ ifile.state = "full"

\* a file was written for a request in which one table was skipped
C21_Witness ==
    /\ ipc = "saved"
    /\ Len(itables) = 2
    /\ Len(imodels) = 1
    /\ ifile = [state |-> "full", models |-> imodels]

\* every table of the request was skipped, and the call returned an error
C21_WitnessSkipped ==
    /\ ipc = "failed" /\ ierr = "nomodels"
    /\ Len(itables) >= 1 /\ ifile = NoFile
(***************************************************************************)
(* The type mapping on its own: mapPostgreSQLTypeToJSON applied to the     *)
(* spellings of one type name.                                             *)
(***************************************************************************)
\* the names the switch of mapPostgreSQLTypeToJSON lists
TableNames ==
    {"integer", "int", "int4", "smallint", "int2", "bigint", "int8", "serial",
     "serial4", "bigserial", "serial8", "text", "character varying", "varchar",
     "character", "char", "name", "numeric", "decimal", "money",
     "double precision", "float8", "real", "float4", "boolean", "bool",
     "timestamp", "timestamp without time zone", "timestamp with time zone",
     "timestamptz", "timestamp at time zone", "date", "time",
     "time without time zone", "time with time zone", "timetz", "json", "jsonb",
     "uuid", "bytea", "bit", "bit varying", "varbit"}
\* type names the switch does not list
OtherNames == {"xml", "inet", "point", "user-defined", ""}

FieldTypes ==
    {TypeInteger, TypeString, TypeDecimal, TypeBoolean, TypeTimestamp, TypeJSON,
     TypeUUID, TypeBinary}

\* t in upper case, t(255), t[] and their combinations, with or without
\* blanks around
Spellings(t) ==
    LET words == {<<Word(t)>>, <<UpperWord(t)>>}
        args == words \cup { w \o <<TypeArgs>> : w \in words }
        arrs == args \cup { a \o <<ArraySuffix>> : a \in args }
    IN  arrs \cup { <<Blank>> \o a \o <<Blank>> : a \in arrs }

MapInit ==
    /\ SeqIdle
    /\ SrvIdle
    /\ ExeIdle
    /\ DocIdle
    /\ SchIdle
    /\ RslIdle
    /\ IntIdle
    /\ UseIdle
    /\ tname \in TableNames \cup OtherNames
    /\ ttext = <<>>
    /\ tout = ""

\* one call of mapPostgreSQLTypeToJSON on a spelling of tname
MapType ==
    /\ \E pgType \in Spellings(tname) :
           /\ ttext' = pgType
           /\ tout' = mapPostgreSQLTypeToJSON(pgType)
    /\ UNCHANGED <<seqVars, srvVars, exeVars, docVars, schVars, rslVars, intVars,
                   useVars, tname>>

MapNext == MapType

SpecTypeMap == MapInit /\ [][MapNext]_vars

(***************************************************************************)
(* C22: mapPostgreSQLTypeToJSON is total into the eight field types and    *)
(* invariant under normalisation: for every base type name of its table    *)
(* the result is the same when the name is upper-cased, when a parameter   *)
(* list is appended and when the array suffix [] is appended; a name that  *)
(* is not in the table maps to string.                                     *)
(***************************************************************************)
Mapped == tout # ""

C22_MappingNormalises ==
    Mapped =>
        /\ tout \in FieldTypes
        /\ tout = mapPostgreSQLTypeToJSON(<<Word(tname)>>)
        /\ tname \notin TableNames => tout = TypeString
        /\ tname \in {"int8", "serial"} => tout = TypeInteger
        /\ tname \in {"money", "double precision"} => tout = TypeDecimal
        /\ tname \in {"bool"} => tout = TypeBoolean
        /\ tname \in {"timestamp with time zone", "date"} => tout = TypeTimestamp
        /\ tname \in {"jsonb"} => tout = TypeJSON
        /\ tname \in {"uuid"} => tout = TypeUUID
        /\ tname \in {"bit varying"} => tout = TypeBinary
        /\ tname \in {"character varying", "name"} => tout = TypeString

\* an upper-case array of a parameterised type, mapped to a type that is
\* not the default
C22_Witness ==
    /\ Mapped
    /\ tname = "numeric"
    /\ ttext = <<UpperWord("numeric"), TypeArgs, ArraySuffix>>
    /\ tout = TypeDecimal
(***************************************************************************)
(* Reading the WHERE clause of a relational statement back.                *)
(***************************************************************************)
\* the text with the placeholder numbers blanked
Erase(text) ==
    [i \in DOMAIN text |-> IF IsPh(text[i]) THEN [text[i] EXCEPT !.n = 0] ELSE text[i]]

IndexOf(text, t) ==
    IF \E i \in DOMAIN text : text[i] = t
    THEN CHOOSE i \in DOMAIN text : text[i] = t /\ \A j \in 1..(i - 1) : text[j] # t
    ELSE 0

\* the tokens between WHERE and the clause that follows the filter
WherePart(text) ==
    LET from == IndexOf(text, Lit("WHERE"))
        Closes(t) == t \in {Lit("GROUP BY"), Lit("ORDER BY"), Lit("LIMIT"),
                            Lit("RETURNING *"), Lit(";")}
        to == CHOOSE i \in DOMAIN text :
                  /\ i > from /\ Closes(text[i])
                  /\ \A j \in (from + 1)..(i - 1) : ~Closes(text[j])
    IN  IF from = 0 THEN <<>> ELSE SubSeq(text, from + 1, to - 1)

\* what the claim says a filter tree compiles to, placeholder numbers aside
RECURSIVE FilterShape(_)
FilterShape(f) ==
    IF f.kind = "cmp" THEN Erase(buildComparisonFilter(NewQueryBuilder, f).sql)
    ELSE LET children == [i \in 1..Len(f.nodes) |-> FilterShape(f.nodes[i])]
         IN  CASE f.op = "AND" ->
                     <<Lit("(")>> \o Join(children, <<Lit("AND")>>) \o <<Lit(")")>>
                [] f.op = "OR" ->
                     <<Lit("(")>> \o Join(children, <<Lit("OR")>>) \o <<Lit(")")>>
                [] OTHER -> <<Lit("NOT")>> \o children[1]

\* every logical node has children, a known operator, and one child under NOT
RECURSIVE WellFormed(_)
WellFormed(f) ==
    f.kind = "log" =>
        /\ Len(f.nodes) > 0
        /\ f.op \in {"AND", "OR", "NOT"}
        /\ f.op = "NOT" => Len(f.nodes) = 1
        /\ \A i \in 1..Len(f.nodes) : WellFormed(f.nodes[i])

HasLogical(f) == f.kind = "log"
GoodLeavesOnly(f) == \A i \in 1..Len(LeavesOf(f)) : LeavesOf(f)[i] \notin BadLeaves

\* the call compiled plan.Filters: a select, or an update or delete that
\* names no id
Compiles(p) ==
    /\ ~p.isNil /\ ~p.rootNil
    /\ \/ OperationOf(p) = "select"
       \/ OperationOf(p) = "delete" /\ p.id = Nil
       \/ OperationOf(p) = "update" /\ p.id = Nil /\ DOMAIN p.data # {}

C23_WitnessRefused ==
    /\ calls > 0 /\ res.st = "err"
    /\ plan.filters.kind = "log" /\ plan.filters.op = "NOT"
    /\ Len(plan.filters.nodes) = 2
(***************************************************************************)
(* C24: every select statement ends with LIMIT $k OFFSET $k+1; where       *)
(* k+1 = len(params), and the last two params are the plan's limit and     *)
(* offset in that order, also when a value is 0; a create, update or       *)
(* delete statement carries no pagination parameter.                       *)
(***************************************************************************)
\* the comparisons of the selector that bind a value
BindingLeaves(p) ==
    IF p.id # Nil THEN 1
    ELSE Len(SelectSeq(LeavesOf(p.filters),
                       LAMBDA l : l.op \notin {"is_null", "not_null"}))

C24_PaginationTail ==
    calls > 0 /\ Built =>
        LET n == Len(res.text)
            k == Len(res.params) - 1
        IN  IF OperationOf(plan) = "select"
            THEN /\ k >= 1 /\ n >= 5
                 /\ SubSeq(res.text, n - 4, n)
                        = <<Lit("LIMIT"), Ph(k), Lit("OFFSET"), Ph(k + 1), Lit(";")>>
                 /\ res.params[k] = IntV(plan.limit)
                 /\ res.params[k + 1] = IntV(plan.offset)
                 /\ \A i \in 1..(n - 5) :
                        res.text[i] \notin {Lit("LIMIT"), Lit("OFFSET"), Lit(";")}
            ELSE /\ \A i \in 1..n : res.text[i] \notin {Lit("LIMIT"), Lit("OFFSET")}
                 /\ Len(res.params)
                        = Len(KeysInText(res.text, plan))
                          + (IF OperationOf(plan) = "create" THEN 0
                             ELSE BindingLeaves(plan))

\* a filtered, grouped and sorted select whose limit and offset are both 0
C24_Witness ==
    /\ calls > 0 /\ Built
    /\ OperationOf(plan) = "select"
    /\ plan.limit = 0 /\ plan.offset = 0
    /\ plan.filters # NoFilter
    /\ Len(plan.sort) > 0
    /\ Len(res.params) = 3
(***************************************************************************)
(* C25: an update or delete statement is never emitted without a WHERE     *)
(* clause.  With an id the clause is WHERE <primary key column> = $k and   *)
(* the id is the last parameter, after the SET values; with filters and no *)
(* id it is the compiled filter; with neither, and for a create or update  *)
(* with empty data, BuildQuery returns an error with empty text and no     *)
(* params.                                                                 *)
(***************************************************************************)
Refused == res = [text |-> <<>>, params |-> <<>>, st |-> "err"]
Mutation(p) == ~p.isNil /\ ~p.rootNil /\ OperationOf(p) \in {"update", "delete"}
Occurrences(text, t) == Cardinality({ i \in DOMAIN text : text[i] = t })

C25_AlwaysSelective ==
    calls > 0 /\ ~plan.isNil /\ ~plan.rootNil =>
        /\ OperationOf(plan) \in {"create", "update"} /\ DOMAIN plan.data = {}
               => Refused
        /\ Mutation(plan) /\ plan.id = Nil /\ plan.filters = NoFilter => Refused
        /\ Mutation(plan) /\ Built =>
               /\ Occurrences(res.text, Lit("WHERE")) = 1
               /\ WherePart(res.text) # <<>>
               /\ IF plan.id # Nil
                  THEN LET k == Len(res.params)
                       IN  /\ WherePart(res.text)
                                  = <<Ident(plan.pk.name), Lit("="), Ph(k)>>
                           /\ res.params[k] = plan.id
                           /\ k = Len(KeysInText(res.text, plan)) + 1
                  ELSE /\ plan.filters # NoFilter
                       /\ Erase(WherePart(res.text)) = FilterShape(plan.filters)
        /\ Mutation(plan) /\ plan.id # Nil
              /\ (OperationOf(plan) = "update" => DOMAIN plan.data # {}) => Built

\* an update of two columns by id: the id is the third parameter
C25_Witness ==
    /\ calls > 0 /\ Built
    /\ plan.operation = "update"
    /\ plan.id = IntV(7)
    /\ Len(res.params) = 3
    /\ res.params[3] = IntV(7)

\* a delete that names neither id nor filters is refused
C25_WitnessRefused ==
    /\ calls > 0 /\ Refused
    /\ plan.operation = "delete" /\ plan.id = Nil /\ plan.filters = NoFilter
(***************************************************************************)
(* Column references of a statement: the alias.name tokens, and the bare   *)
(* identifiers that do not declare a table, a table alias or an output     *)
(* alias.                                                                  *)
(***************************************************************************)
ColumnRefs(text) ==
    { i \in DOMAIN text :
        \/ text[i].k = "col"
        \/ /\ text[i].k = "id"
           /\ i > 1
           /\ text[i - 1] \notin {Lit("FROM"), Lit("INSERT INTO"), Lit("UPDATE"),
                                  Lit("DELETE FROM"), Lit("AS")}
           /\ ~(i > 2 /\ text[i - 2] = Lit("FROM")) }

Range(f) == { f[i] : i \in DOMAIN f }

\* the column names the plan carries in its column IRs
PlanColumns(p) ==
    { p.select[i].column.name : i \in DOMAIN p.select }
    \cup { p.groupBy[i].name : i \in DOMAIN p.groupBy }
    \cup { p.aggregates[i].column.name :
              i \in { j \in DOMAIN p.aggregates : p.aggregates[j].hasCol } }
    \cup { p.sort[i].column.name : i \in { j \in DOMAIN p.sort : p.sort[j].hasCol } }
    \cup { l.left.name : l \in Range(LeavesOf(p.filters)) }

\* the aggregate aliases the plan carries
AggAliases(p) ==
    { p.aggregates[i].alias : i \in DOMAIN p.aggregates }
    \cup { p.sort[i].aggAlias : i \in { j \in DOMAIN p.sort : p.sort[j].hasAgg } }

(***************************************************************************)
(* C26: closed projection.  As stated: in every text, for every operation, *)
(* each column reference has the form t0.<name>, where <name> is a column  *)
(* the plan carries for the root model, or is an aggregate alias of the    *)
(* plan.                                                                   *)
(***************************************************************************)
C26_ClosedProjection ==
    calls > 0 /\ Built =>
        \A i \in ColumnRefs(res.text) :
            LET t == res.text[i]
            IN  \/ t.k = "col" /\ t.a = "t0" /\ t.s \in PlanColumns(plan)
                \/ t.k = "id" /\ t.s \in AggAliases(plan)

(***************************************************************************)
(* C26, as the builder has it: in a select, and in the filter of an update *)
(* or delete, each column reference is t0.<name> with <name> a column the  *)
(* plan carries, or an aggregate alias of the plan; the column list of an  *)
(* insert, the SET targets of an update and the id selector of an update   *)
(* or delete name their columns bare, and these are the keys of plan.Data  *)
(* and the primary key column of the root model.                           *)
(***************************************************************************)
C26_ClosedProjectionPerStatement ==
    calls > 0 /\ Built =>
        \A i \in ColumnRefs(res.text) :
            LET t == res.text[i]
            IN  \/ /\ t.k = "col" /\ t.a = plan.alias /\ t.s \in PlanColumns(plan)
                   /\ OperationOf(plan) # "create"
                   /\ OperationOf(plan) \in {"update", "delete"} => plan.id = Nil
                \/ /\ t.k = "id" /\ OperationOf(plan) = "select"
                   /\ t.s \in AggAliases(plan)
                \/ /\ t.k = "id" /\ OperationOf(plan) \in {"create", "update"}
                   /\ t.s \in DOMAIN plan.data
                \/ /\ t.k = "id" /\ OperationOf(plan) \in {"update", "delete"}
                   /\ plan.id # Nil
                   /\ t.s = plan.pk.name

\* an update by filter: bare SET targets and a qualified filter column
C26_Witness ==
    /\ calls > 0 /\ Built
    /\ plan.operation = "update" /\ plan.id = Nil
    /\ \E i, j \in ColumnRefs(res.text) :
           /\ res.text[i] = Ident("email")
           /\ res.text[j] = ColRef("t0", "age")
(***************************************************************************)
(* C27: the document builder never produces an update or delete command    *)
(* whose filter is empty and so matches every document: for an update or   *)
(* delete plan without filters it builds a non-empty selector or returns   *)
(* an error.                                                               *)
(***************************************************************************)
C27_NoEmptySelector ==
    DocBuilt /\ mplan.operation \in {"update", "delete"} =>
        mres.query.filter \notin {EmptyDoc, NilDoc}
(***************************************************************************)
(* C28: every table alias that qualifies a column of a relational          *)
(* statement is declared by that statement.  A select declares its alias   *)
(* after the table of its FROM clause; an update or delete introduces the  *)
(* name of its target table only.                                          *)
(***************************************************************************)
\* the names a statement introduces for its table
Declared(text) ==
    { text[j].s : j \in { i \in DOMAIN text :
        /\ text[i].k = "id"
        /\ \/ i > 2 /\ text[i - 2] = Lit("FROM")
           \/ /\ i > 1 /\ text[i - 1] \in {Lit("UPDATE"), Lit("DELETE FROM")} } }

C28_AliasesDeclared ==
    calls > 0 /\ Built =>
        \A i \in DOMAIN res.text :
            res.text[i].k = "col" => res.text[i].a \in Declared(res.text)
(***************************************************************************)
(* One QueryBuilder reused by a caller for a sequence of different plans.  *)
(* qb.params is a slice: uarr names its backing array and uheap holds the  *)
(* cells of every array allocated; a caller keeps the slice it was handed  *)
(* (array and length) and reads its cells later.                           *)
(***************************************************************************)
ReusePlans ==
    { [BasePlan EXCEPT !.filters = Cmp(Col("age", "integer"), "between", PairV(1, 5))],
      [BasePlan EXCEPT !.filters = Cmp(Col("id", "uuid"), "=", StrV(1)),
                       !.limit = 10, !.offset = 5],
      [BasePlan EXCEPT !.limit = 0],
      [BasePlan EXCEPT !.filters =
          Log("AND", <<Cmp(Col("id", "uuid"), "=", StrV(1)),
                       Cmp(Col("age", "integer"), ">", Nil)>>)],
      [BasePlan EXCEPT !.filters =
          Log("AND", <<Cmp(Col("id", "uuid"), "=", StrV(2)),
                       Cmp(Col("name", "string"), "contains", IntV(7))>>)],
      [BasePlan EXCEPT !.operation = "create", !.data = [k \in {"name"} |-> StrV(3)]],
      [BasePlan EXCEPT !.operation = "create"],
      [BasePlan EXCEPT !.operation = "update", !.id = IntV(7),
                       !.data = [k \in {"age"} |-> IntV(3)]],
      [BasePlan EXCEPT !.operation = "update",
                       !.data = [k \in {"age"} |-> IntV(3)]],
      [BasePlan EXCEPT !.operation = "delete", !.id = IntV(2)],
      [BasePlan EXCEPT !.operation = "delete",
                       !.filters = Cmp(Col("name", "string"), "starts_with", StrV(1))] }
    \cup OddPlans

\* qb.params = []interface{}{} : a new array
resetParams_reuse(arr, heap) == arr
resetParams(arr, heap) == Len(heap) + 1

\* the cells of an array after the appends of one call wrote params into it
Overwrite(cells, params) ==
    [i \in 1..(IF Len(cells) > Len(params) THEN Len(cells) ELSE Len(params)) |->
        IF i <= Len(params) THEN params[i] ELSE cells[i]]

UseInit ==
    /\ SeqIdle
    /\ SrvIdle
    /\ ExeIdle
    /\ DocIdle
    /\ SchIdle
    /\ RslIdle
    /\ IntIdle
    /\ MapIdle
    /\ uqb = NewQueryBuilder
    /\ uarr = 1
    /\ uheap = << <<>> >>
    /\ uhist = <<>>

\* the next BuildQuery call of the caller, on any plan
Reuse ==
    /\ Len(uhist) < MaxCalls
    /\ \E p \in ReusePlans :
         \E order \in Perms(DOMAIN p.data) :
           LET r == BuildQuery(uqb, p, order)
               entered == ~p.isNil /\ ~p.rootNil
               arr == IF entered THEN resetParams(uarr, uheap) ELSE uarr
               heap == IF arr > Len(uheap) THEN Append(uheap, <<>>) ELSE uheap
               out == [text |-> r.text, params |-> r.params, st |-> r.st]
           IN  /\ uqb' = r.qb
               /\ uarr' = arr
               /\ uheap' = IF entered
                           THEN [heap EXCEPT ![arr] = Overwrite(@, r.qb.params)]
                           ELSE heap
               /\ uhist' = Append(uhist,
                     [plan |-> p, order |-> order, out |-> out,
                      arr |-> IF r.st = "ok" THEN arr ELSE 0,
                      len |-> Len(r.params)])
    /\ UNCHANGED <<seqVars, srvVars, exeVars, docVars, schVars, rslVars, intVars,
                   mapVars>>

UseNext == Reuse

SpecReuse == UseInit /\ [][UseNext]_vars

\* what the caller of call k reads now in the params it was handed
ParamsNow(h) == IF h.arr = 0 THEN <<>> ELSE SubSeq(uheap[h.arr], 1, h.len)

\* what the call returns on a builder that was never used
Fresh(p, order) ==
    LET r == BuildQuery(NewQueryBuilder, p, order)
    IN  [text |-> r.text, params |-> r.params, st |-> r.st]

(***************************************************************************)
(* C29: sequential reuse of one relational QueryBuilder is stateless.      *)
(* After any sequence of earlier BuildQuery calls, successful or failed, a *)
(* call numbers its placeholders from $1 and returns only its own params,  *)
(* and the params list an earlier call returned is not modified by later   *)
(* calls.                                                                  *)
(***************************************************************************)
C29_ReuseIsStateless ==
    \A k \in DOMAIN uhist :
        LET h == uhist[k]
            phs == Placeholders(h.out.text)
        IN  /\ h.out = Fresh(h.plan, h.order)
            /\ phs # <<>> => phs[1].n = 1
            /\ h.out.st = "ok" =>
                   Len(h.out.params) <= Len(phs)
            /\ ParamsNow(h) = h.out.params

\* two successful calls with different params, the earlier with more
C29_Witness ==
    /\ Len(uhist) = 2
    /\ uhist[1].out.st = "ok" /\ uhist[2].out.st = "ok"
    /\ Len(uhist[1].out.params) = 3
    /\ Len(uhist[2].out.params) = 1
    /\ uhist[2].out.params[1] # uhist[1].out.params[1]

\* a call after a failed call that had bound a parameter
C29_WitnessAfterFailure ==
    /\ Len(uhist) = 2
    /\ uhist[1].out.st = "err" /\ uhist[1].plan.filters.kind = "log"
    /\ uhist[2].out.st = "ok" /\ Len(uhist[2].out.params) = 2
(***************************************************************************)
(* C30: stats accounting of document inference.  After analysing any       *)
(* sequence of documents every field path, nested and [] paths included,   *)
(* satisfies TotalCount = NullCount + the sum of its TypeCounts; for a     *)
(* top-level path TotalCount is the number of analysed documents that hold *)
(* that key, and never exceeds DocumentCount.                              *)
(***************************************************************************)
RECURSIVE SumOver(_, _)
SumOver(counts, types) ==
    IF types = {} THEN 0
    ELSE LET t == CHOOSE x \in types : TRUE
         IN  counts[t] + SumOver(counts, types \ {t})

SumCounts(counts) == SumOver(counts, DOMAIN counts)

\* the analysed documents that hold the key at their top level
Holding(key) == { i \in 1..sidx : key \in DOMAIN sdocs[i] }

C30_WitnessPaths ==
    /\ sidx >= 1
    /\ <<"tags", "[]">> \in DOMAIN sschema
    /\ sschema[<<"tags", "[]">>].total = 2
====
